---- MODULE Spec2Model ----
(***************************************************************************)
(* Control-flow state machine of the ACE security monitor: the            *)
(* ConfidentialFlow guard (confidential_flow/control_flow/mod.rs), the     *)
(* shared-page validation (core/page_allocator/shared_page.rs) and the     *)
(* conversion of a VM into a confidential VM                               *)
(* (non_confidential_flow/handlers/convert_to_confidential_vm.rs).         *)
(*                                                                         *)
(* Every hardware hart is a process.  Its position is pc[h]:               *)
(*   "NonConfidential"  the hypervisor side (NonConfidentialFlow)          *)
(*   "try_write"        create_confidential_vm before its try_write        *)
(*   "write_locked"     ... inside the closure, holding the write lock     *)
(*   "Guest"            the confidential hart executes, no guard exists    *)
(*   "resume_entry"     into_confidential_flow stole the hart, before      *)
(*                      resume_confidential_hart_execution                 *)
(*   "resume_process"   resume_confidential_hart_execution after create    *)
(*   "resume_take"      ... after process_inter_hart_requests              *)
(*   "handler"          a handler selected by route_confidential_flow owns *)
(*                      the ConfidentialFlow guard                         *)
(*   "broadcast_swapped", "broadcast_sent"                                 *)
(*                      inside the closure of broadcast_inter_hart_request *)
(*   "exit_to_confidential_hart_asm"                                       *)
(*                      exit_to_confidential_hart before the context switch*)
(*   "panic"            the monitor aborted on this hart                   *)
(***************************************************************************)
EXTENDS Integers, Sequences, FiniteSets, TLC

VARIABLES
    confidential_vms,   \* ControlData: ConfidentialVmId -> ConfidentialVm
    hardware_hart,      \* HardwareHart of every physical hart
    pc,                 \* position of every physical hart
    panic_reason,       \* why the monitor aborted on the hart
    inflight,           \* request inside the closure of a broadcast
    result,             \* Result the last guard operation returned to the handler
    memory_layout,      \* MemoryLayout: the bounds of the non-confidential memory
    shared_page,        \* the last call of SharedPage::new and what it returned
    conversion          \* the conversion a hardware hart runs for the hypervisor:
                        \* its locals and what it exposed to the hypervisor

vars == <<confidential_vms, hardware_hart, pc, panic_reason, inflight, result,
          memory_layout, shared_page, conversion>>
memory_vars == <<memory_layout, shared_page>>
non_confidential_vars == <<memory_layout, shared_page, conversion>>

(***************************************************************************)
(* Bounds of the model and constants of the program.                       *)
(***************************************************************************)
NumberOfHardwareHarts == 2
UsizeBits == 4
MaxNumberOfConfidentialVms == 2
MaxInterHartRequests == 2

BOOT_HART_ID == 0
confidential_harts_count == 2
NoVmId == 0

HardwareHarts == 1..NumberOfHardwareHarts
ConfidentialVmIds == 1..MaxNumberOfConfidentialVms
ConfidentialHartIds == 0..(confidential_harts_count - 1)

(***************************************************************************)
(* Shared pages.  Addresses are machine words of UsizeBits bits; the       *)
(* non-confidential memory is [start, end).                                *)
(***************************************************************************)
UsizeMax == 2^UsizeBits - 1
Usize == 0..UsizeMax

MemoryLayouts ==
    {l \in [non_confidential_memory_start : Usize, non_confidential_memory_end : Usize] :
        l.non_confidential_memory_start < l.non_confidential_memory_end}
BootMemoryLayout ==
    [non_confidential_memory_start |-> 0, non_confidential_memory_end |-> UsizeMax]

\* PageSize::in_bytes, in a memory of UsizeBits bits
PageSize == {"Size4KiB", "Size2MiB"}
in_bytes(page_size) == IF page_size = "Size4KiB" THEN 2 ELSE 4

\* SharePageRequest
SharePageRequest == [page_size : PageSize, confidential_vm_virtual_address : {0}]

Ok(value) == [ok |-> TRUE, value |-> value]
Err(error) == [ok |-> FALSE, value |-> error]

\* NonConfidentialMemoryAddress::new: the address is in non-confidential memory
NonConfidentialMemoryAddress_new(layout, address) ==
    IF layout.non_confidential_memory_start <= address
        /\ address < layout.non_confidential_memory_end
    THEN Ok(address)
    ELSE Err("MemoryAccessAuthorization")

\* MemoryLayout::non_confidential_address_at_offset: the address at the offset,
\* when it is an address of the non-confidential memory
non_confidential_address_at_offset(layout, address, offset_in_bytes) ==
    IF address + offset_in_bytes <= UsizeMax
        /\ address + offset_in_bytes < layout.non_confidential_memory_end
    THEN Ok(address + offset_in_bytes)
    ELSE Err("MemoryAccessAuthorization")

\* SharedPage::new that probes the end at the size of the page
SharedPage_new_probing_past_end(layout, hypervisor_address, request) ==
    LET start == NonConfidentialMemoryAddress_new(layout, hypervisor_address)
    IN  IF ~start.ok THEN start
        ELSE IF ~non_confidential_address_at_offset(
                    layout, start.value, in_bytes(request.page_size)).ok
        THEN Err("MemoryAccessAuthorization")
        ELSE Ok([hypervisor_address |-> start.value,
                 confidential_vm_virtual_address |-> request.confidential_vm_virtual_address,
                 page_size |-> request.page_size])

\* SharedPage::new
SharedPage_new(layout, hypervisor_address, request) ==
    LET page_size == request.page_size
        start == NonConfidentialMemoryAddress_new(layout, hypervisor_address)
    IN  IF ~start.ok THEN start
        ELSE LET end == non_confidential_address_at_offset(
                            layout, start.value, (in_bytes(page_size) - 1) % 2^UsizeBits)
             IN  IF ~end.ok THEN end
                 ELSE Ok([hypervisor_address |-> start.value,
                          confidential_vm_virtual_address |->
                                request.confidential_vm_virtual_address,
                          page_size |-> page_size])

NoSharedPage == [hypervisor_address |-> 0, page_size |-> "None", returned |-> Err("None")]

(***************************************************************************)
(* Data model.                                                             *)
(***************************************************************************)
HartLifecycleState == {"Started", "Suspended", "Stopped", "Shutdown"}

\* PendingRequest: the variants matched by resume_confidential_hart_execution.
PendingRequest ==
    {"SbiRequest", "GuestLoadPageFault", "GuestStorePageFault", "SharePage",
     "SbiHsmHartStart", "SbiHsmHartStartPending"}
NoPendingRequest == "None"

\* InterHartRequest: a kind and the mask of the confidential harts it selects.
InterHartRequestKinds == {"InterProcessorInterrupt", "SbiRemoteFenceI"}
InterHartRequest ==
    [kind : InterHartRequestKinds, hart_mask : SUBSET ConfidentialHartIds]

\* ExposeToConfidentialVm: a transformation of the confidential hart's state.
ExposeToConfidentialVm(variant, origin) == [variant |-> variant, origin |-> origin]

\* InterHartRequest::into_expose_to_confidential_vm
into_expose_to_confidential_vm(inter_hart_request) ==
    ExposeToConfidentialVm(inter_hart_request.kind, "InterHartRequest")

\* Error::into_confidential_transformation
into_confidential_transformation(error) ==
    ExposeToConfidentialVm("SbiResult", error)

\* TrapCause as ConfidentialHart::trap_reason decodes it: the cause and, for a
\* supervisor call, the SBI extension and function.
TrapReason(cause, extension, function) ==
    [cause |-> cause, extension |-> extension, function |-> function]
NoTrapReason == TrapReason("None", "-", "-")

\* ConfidentialHart::dummy: the sentinel a hardware hart holds when no
\* confidential hart is assigned, and a VM holds in place of a stolen hart.
dummy(id) ==
    [confidential_vm_id |-> NoVmId,
     confidential_hart_id |-> id,
     lifecycle_state |-> "Stopped",
     pending_request |-> NoPendingRequest,
     applied |-> << >>,
     volatile_csrs |-> "in_main_memory",
     loaded_csrs |-> << >>,
     trap_reason |-> NoTrapReason,
     registers |-> "none"]

\* ConfidentialHart::from_vm_hart: the boot hart, with the supplied state.
from_vm_hart(id, hart_state) ==
    [confidential_vm_id |-> NoVmId,
     confidential_hart_id |-> id,
     lifecycle_state |-> "Started",
     pending_request |-> NoPendingRequest,
     applied |-> << >>,
     volatile_csrs |-> "in_main_memory",
     loaded_csrs |-> << >>,
     trap_reason |-> NoTrapReason,
     registers |-> hart_state]

\* ConfidentialHart::from_vm_hart_reset: a hart in the VM-reset state.
from_vm_hart_reset(id, hart_state) ==
    [from_vm_hart(id, hart_state) EXCEPT
        !.lifecycle_state = "Stopped", !.registers = "reset"]

is_dummy(confidential_hart) == confidential_hart.confidential_vm_id = NoVmId

\* ConfidentialHart::apply; `applied` records, in order, the transformations
\* the last operation of the current guard applied to the hart.
apply(confidential_hart, transformation) ==
    [confidential_hart EXCEPT !.applied = Append(@, transformation)]

\* an operation of a guard starts with nothing applied
without_applied(hart) == [hart EXCEPT !.applied = << >>]

\* once the guard is gone nothing is recorded as applied, and the trap that
\* was handled is over; the confidential hart that runs has the registers
without_guard(hart) ==
    [hart EXCEPT !.applied = << >>, !.trap_reason = NoTrapReason, !.loaded_csrs = << >>]

\* ConfidentialHart::store_volatile_control_status_registers_in_main_memory
store_volatile_control_status_registers_in_main_memory(hart) ==
    [hart EXCEPT !.volatile_csrs = "in_main_memory", !.loaded_csrs = << >>]

\* ConfidentialHart::load_volatile_control_status_registers_from_main_memory:
\* the registers get what the state of the hart in memory holds, which is what
\* the transformations applied so far made of it
load_volatile_control_status_registers_from_main_memory(hart) ==
    [hart EXCEPT !.volatile_csrs = "in_cpu", !.loaded_csrs = hart.applied]

RECURSIVE apply_all(_, _)
apply_all(confidential_hart, transformations) ==
    IF transformations = << >> THEN confidential_hart
    ELSE apply_all(apply(confidential_hart, Head(transformations)), Tail(transformations))

\* Iterator::map over a drained queue.
RECURSIVE map_into_expose(_)
map_into_expose(requests) ==
    IF requests = << >> THEN << >>
    ELSE <<into_expose_to_confidential_vm(Head(requests))>> \o map_into_expose(Tail(requests))

\* ConfidentialVm::new
ConfidentialVm_new(id, confidential_harts) ==
    [confidential_harts |->
        [i \in ConfidentialHartIds |-> [confidential_harts[i] EXCEPT !.confidential_vm_id = id]],
     inter_hart_requests |-> [i \in ConfidentialHartIds |-> << >>]]

\* HardwareHart: the confidential hart it holds and the scratch register.
HardwareHart_new(id) ==
    [confidential_hart |-> dummy(id),
     mscratch |-> "monitor",
     previous_mscratch |-> "firmware"]

\* HardwareHart::swap_mscratch
swap_mscratch(hh) ==
    [hh EXCEPT !.mscratch = hh.previous_mscratch, !.previous_mscratch = hh.mscratch]

confidential_hart(h) == hardware_hart[h].confidential_hart
\* ConfidentialFlow::confidential_vm_id and ::confidential_hart_id
confidential_vm_id(h) == confidential_hart(h).confidential_vm_id
confidential_hart_id(h) == confidential_hart(h).confidential_hart_id

NoInterHartRequest == [kind |-> "None", hart_mask |-> {}]

\* ExposeToHypervisor: what exit_to_hypervisor hands to the hypervisor
NoExposeToHypervisor == [variant |-> "None"]
\* ExposeToHypervisor::SbiRequest(SbiRequest::kvm_ace_register(id, boot_hart_id))
kvm_ace_register(id, boot_hart_id) ==
    [variant |-> "SbiRequest", function |-> "kvm_ace_register",
     confidential_vm_id |-> id, boot_hart_id |-> boot_hart_id]
\* Error::into_non_confidential_transformation
into_non_confidential_transformation(error) == [variant |-> "SbiResult", error |-> error]

\* the locals of create_confidential_vm on a hardware hart that converts no VM
NoConversion ==
    [confidential_harts |-> << >>, id |-> NoVmId, exposed |-> NoExposeToHypervisor]

Init ==
    /\ confidential_vms = << >>
    /\ hardware_hart = [h \in HardwareHarts |-> HardwareHart_new(h)]
    /\ pc = [h \in HardwareHarts |-> "NonConfidential"]
    /\ panic_reason = [h \in HardwareHarts |-> "None"]
    /\ inflight = [h \in HardwareHarts |-> NoInterHartRequest]
    /\ result = [h \in HardwareHarts |-> "None"]
    /\ memory_layout = BootMemoryLayout
    /\ shared_page = NoSharedPage
    /\ conversion = [h \in HardwareHarts |-> NoConversion]

(***************************************************************************)
(* ControlData: the registry lock and the lock of every VM.  A lock is     *)
(* held over more than one step only inside the closure of                 *)
(* broadcast_inter_hart_request (read lock and the lock of the VM) and     *)
(* inside the closure of try_write (write lock), so its holders follow     *)
(* from pc.                                                                *)
(***************************************************************************)
BroadcastPcs == {"broadcast_swapped", "broadcast_sent"}
GuardPcs ==
    {"resume_process", "resume_take", "handler", "exit_to_confidential_hart_asm"}
    \cup BroadcastPcs

VmLockHolders(id) ==
    {h \in HardwareHarts : pc[h] \in BroadcastPcs /\ confidential_vm_id(h) = id}
ReadLockHolders == {h \in HardwareHarts : pc[h] \in BroadcastPcs}
WriteLockHolders == {h \in HardwareHarts : pc[h] = "write_locked"}
\* ControlData::try_confidential_vm can read-lock the registry and lock the VM
VmLockFree(id) == VmLockHolders(id) = {} /\ WriteLockHolders = {}
\* ControlData::try_write can write-lock the registry
WriteLockFree == ReadLockHolders = {} /\ WriteLockHolders = {}

\* a panic aborts the monitor: no hart takes a step after it
Aborted == \E h \in HardwareHarts : pc[h] = "panic"

\* ControlData::try_confidential_vm finds the VM
vm_exists(id) == id \in DOMAIN confidential_vms

\* ControlData::unique_id: the ids no VM of the registry has
unique_ids == ConfidentialVmIds \ DOMAIN confidential_vms

\* ControlData::insert_confidential_vm
insert_confidential_vm(vms, id, vm) ==
    [i \in DOMAIN vms \cup {id} |-> IF i = id THEN vm ELSE vms[i]]

\* ConfidentialVm::return_confidential_hart and ::steal_confidential_hart
\* exchange the hart of the hardware hart with the VM's slot.
swap_confidential_hart(vms, id, slot, hh) ==
    [vms EXCEPT ![id].confidential_harts[slot] = without_guard(hh.confidential_hart)]
swapped_hardware_hart(vms, id, slot, hh) ==
    [hh EXCEPT !.confidential_hart = vms[id].confidential_harts[slot]]

Panic(h, reason) ==
    /\ pc' = [pc EXCEPT ![h] = "panic"]
    /\ panic_reason' = [panic_reason EXCEPT ![h] = reason]

(***************************************************************************)
(* Flow guards.                                                            *)
(***************************************************************************)
\* create that makes no assertion
create_unchecked(h) == TRUE

\* ConfidentialFlow::create: the assertion it makes
create(h) == ~is_dummy(confidential_hart(h))

\* the hart as a fresh guard sees it
under_new_guard(hh) == [hh EXCEPT !.confidential_hart = without_applied(@)]

\* NonConfidentialFlow::into_confidential_flow: steals the confidential hart
\* from its VM; resume_confidential_hart_execution follows.
into_confidential_flow(h, id, slot) ==
    /\ ~Aborted
    /\ UNCHANGED memory_vars
    /\ conversion' = [conversion EXCEPT ![h] = NoConversion]
    /\ pc[h] = "NonConfidential"
    /\ vm_exists(id)
    /\ VmLockFree(id)
    /\ is_dummy(confidential_hart(h))
    /\ ~is_dummy(confidential_vms[id].confidential_harts[slot])
    /\ confidential_vms' = swap_confidential_hart(confidential_vms, id, slot, hardware_hart[h])
    /\ hardware_hart' = [hardware_hart EXCEPT
            ![h] = swapped_hardware_hart(confidential_vms, id, slot, @)]
    /\ pc' = [pc EXCEPT ![h] = "resume_entry"]
    /\ UNCHANGED <<panic_reason, inflight, result>>

\* ConfidentialFlow::resume_confidential_hart_execution, up to the call of
\* process_inter_hart_requests.  The function is public: it is also modelled
\* as called on a hardware hart that was assigned no confidential hart.
resume_confidential_hart_execution(h) ==
    /\ ~Aborted
    /\ UNCHANGED non_confidential_vars
    /\ pc[h] \in {"NonConfidential", "resume_entry"}
    /\ IF create(h)
       THEN /\ hardware_hart' = [hardware_hart EXCEPT ![h] = under_new_guard(@)]
            /\ pc' = [pc EXCEPT ![h] = "resume_process"]
            /\ UNCHANGED panic_reason
       ELSE /\ Panic(h, "create")
            /\ UNCHANGED hardware_hart
    /\ UNCHANGED <<confidential_vms, inflight, result>>

RECURSIVE reversed(_)
reversed(sequence) ==
    IF sequence = << >> THEN << >>
    ELSE Append(reversed(Tail(sequence)), Head(sequence))

\* process_inter_hart_requests that takes the newest request first
process_inter_hart_requests_newest_first(h) ==
    /\ ~Aborted
    /\ UNCHANGED non_confidential_vars
    /\ pc[h] \in {"resume_process", "handler"}
    /\ vm_exists(confidential_vm_id(h))
    /\ VmLockFree(confidential_vm_id(h))
    /\ hardware_hart' = [hardware_hart EXCEPT
            ![h].confidential_hart =
                apply_all(without_applied(@), reversed(map_into_expose(
                    confidential_vms[confidential_vm_id(h)]
                        .inter_hart_requests[confidential_hart_id(h)])))]
    /\ confidential_vms' = [confidential_vms EXCEPT
            ![confidential_vm_id(h)].inter_hart_requests[confidential_hart_id(h)] = << >>]
    /\ pc' = [pc EXCEPT ![h] = IF @ = "resume_process" THEN "resume_take" ELSE @]
    /\ UNCHANGED <<panic_reason, inflight, result>>

\* process_inter_hart_requests that empties the queue and applies nothing
process_inter_hart_requests_dropping(h) ==
    /\ ~Aborted
    /\ UNCHANGED non_confidential_vars
    /\ pc[h] \in {"resume_process", "handler"}
    /\ vm_exists(confidential_vm_id(h))
    /\ VmLockFree(confidential_vm_id(h))
    /\ hardware_hart' = [hardware_hart EXCEPT
            ![h].confidential_hart = without_applied(@)]
    /\ confidential_vms' = [confidential_vms EXCEPT
            ![confidential_vm_id(h)].inter_hart_requests[confidential_hart_id(h)] = << >>]
    /\ pc' = [pc EXCEPT ![h] = IF @ = "resume_process" THEN "resume_take" ELSE @]
    /\ UNCHANGED <<panic_reason, inflight, result>>

\* process_inter_hart_requests that does not wait for the lock of the VM
process_inter_hart_requests_unlocked(h) ==
    /\ ~Aborted
    /\ UNCHANGED non_confidential_vars
    /\ pc[h] \in {"resume_process", "handler"}
    /\ vm_exists(confidential_vm_id(h))
    /\ hardware_hart' = [hardware_hart EXCEPT
            ![h].confidential_hart =
                apply_all(without_applied(@), map_into_expose(
                    confidential_vms[confidential_vm_id(h)]
                        .inter_hart_requests[confidential_hart_id(h)]))]
    /\ confidential_vms' = [confidential_vms EXCEPT
            ![confidential_vm_id(h)].inter_hart_requests[confidential_hart_id(h)] = << >>]
    /\ pc' = [pc EXCEPT ![h] = IF @ = "resume_process" THEN "resume_take" ELSE @]
    /\ UNCHANGED <<panic_reason, inflight, result>>

\* ConfidentialFlow::process_inter_hart_requests
process_inter_hart_requests(h) ==
    /\ ~Aborted
    /\ UNCHANGED non_confidential_vars
    /\ pc[h] \in {"resume_process", "handler"}
    /\ LET id == confidential_vm_id(h)
           slot == confidential_hart_id(h)
       IN  IF vm_exists(id)
           THEN /\ VmLockFree(id)
                /\ hardware_hart' = [hardware_hart EXCEPT
                        ![h].confidential_hart =
                            apply_all(without_applied(@), map_into_expose(
                                confidential_vms[id].inter_hart_requests[slot]))]
                /\ confidential_vms' =
                        [confidential_vms EXCEPT ![id].inter_hart_requests[slot] = << >>]
                /\ pc' = [pc EXCEPT ![h] =
                        IF @ = "resume_process" THEN "resume_take" ELSE @]
                /\ UNCHANGED panic_reason
           ELSE /\ Panic(h, "unwrap")
                /\ UNCHANGED <<confidential_vms, hardware_hart>>
    /\ UNCHANGED <<inflight, result>>

\* exit_to_confidential_hart that reloads the registers before it applies the
\* transformation
exit_to_confidential_hart_reloading_first(hh, transformation) ==
    [hh EXCEPT !.confidential_hart =
        apply(load_volatile_control_status_registers_from_main_memory(without_applied(@)),
              transformation)]

\* ConfidentialFlow::exit_to_confidential_hart: apply the transformation and
\* reload the volatile registers
exit_to_confidential_hart(hh, transformation) ==
    [hh EXCEPT !.confidential_hart =
        load_volatile_control_status_registers_from_main_memory(
            apply(without_applied(@), transformation))]

\* ... and the context switch into the confidential hart
exit_to_confidential_hart_asm(h) ==
    /\ ~Aborted
    /\ UNCHANGED non_confidential_vars
    /\ pc[h] = "exit_to_confidential_hart_asm"
    /\ hardware_hart' = [hardware_hart EXCEPT ![h].confidential_hart = without_guard(@)]
    /\ pc' = [pc EXCEPT ![h] = "Guest"]
    /\ UNCHANGED <<confidential_vms, panic_reason, inflight, result>>

\* the transformation the result handler of a pending request computes
PendingResult(request) == ExposeToConfidentialVm(request, "PendingRequest")

\* a resume that reads the pending request and leaves it in its slot
resume_pending_request_peeking(h) ==
    /\ ~Aborted
    /\ UNCHANGED non_confidential_vars
    /\ pc[h] = "resume_take"
    /\ LET request == confidential_hart(h).pending_request
           transformation ==
               IF request = NoPendingRequest
               THEN ExposeToConfidentialVm("Resume", "Resume")
               ELSE PendingResult(request)
       IN  hardware_hart' = [hardware_hart EXCEPT
                ![h] = exit_to_confidential_hart(@, transformation)]
    /\ pc' = [pc EXCEPT ![h] = "exit_to_confidential_hart_asm"]
    /\ UNCHANGED <<confidential_vms, panic_reason, inflight, result>>

\* resume_confidential_hart_execution from take_request on
resume_pending_request(h) ==
    /\ ~Aborted
    /\ UNCHANGED non_confidential_vars
    /\ pc[h] = "resume_take"
    /\ LET request == confidential_hart(h).pending_request
           taken == [hardware_hart[h] EXCEPT
                        !.confidential_hart.pending_request = NoPendingRequest]
           transformation ==
               IF request = NoPendingRequest
               THEN ExposeToConfidentialVm("Resume", "Resume")
               ELSE PendingResult(request)
       IN  hardware_hart' = [hardware_hart EXCEPT
                ![h] = exit_to_confidential_hart(taken, transformation)]
    /\ pc' = [pc EXCEPT ![h] = "exit_to_confidential_hart_asm"]
    /\ UNCHANGED <<confidential_vms, panic_reason, inflight, result>>

(***************************************************************************)
(* Dispatch: the match of route_confidential_flow, arm by arm.             *)
(***************************************************************************)
VsEcallTable ==
    { <<"Ace", "SharePageWithHypervisor", "share_page">>,
      <<"Ace", "StopSharingPageWithHypervisor", "unshare_page">>,
      <<"Base", "GetSpecVersion", "hypercall">>,
      <<"Base", "GetImplId", "hypercall">>,
      <<"Base", "GetImplVersion", "hypercall">>,
      <<"Base", "ProbeExtension", "sbi_probe_extension">>,
      <<"Base", "GetMvendorId", "hypercall">>,
      <<"Base", "GetMarchid", "hypercall">>,
      <<"Base", "GetMimpid", "hypercall">>,
      <<"Ipi", "SendIpi", "sbi_ipi">>,
      <<"Rfence", "RemoteFenceI", "sbi_ipi">>,
      <<"Rfence", "RemoteSfenceVma", "sbi_ipi">>,
      <<"Rfence", "RemoteSfenceVmaAsid", "sbi_ipi">>,
      <<"Rfence", "RemoteHfenceGvmaVmid", "sbi_rfence_nop">>,
      <<"Rfence", "RemoteHfenceGvma", "sbi_rfence_nop">>,
      <<"Rfence", "RemoteHfenceVvmaAsid", "sbi_rfence_nop">>,
      <<"Rfence", "RemoteHfenceVvma", "sbi_rfence_nop">>,
      <<"Hsm", "HartStart", "sbi_hsm_hart_start">>,
      <<"Hsm", "HartStop", "sbi_hsm_hart_stop">>,
      <<"Hsm", "HartSuspend", "sbi_hsm_hart_suspend">>,
      <<"Hsm", "HartGetStatus", "sbi_hsm_hart_status">>,
      <<"Srst", "SystemReset", "sbi_srst">> }

NoHandler == "panic"

\* a match without the arm of SbiExtension::Unknown: the last arm takes it
selected_handler_without_unknown_arm(trap_reason) ==
    IF trap_reason.cause = "Interrupt" THEN "interrupt"
    ELSE IF trap_reason.cause = "VsEcall"
    THEN IF \E row \in VsEcallTable :
                row[1] = trap_reason.extension /\ row[2] = trap_reason.function
         THEN (CHOOSE row \in VsEcallTable :
                row[1] = trap_reason.extension /\ row[2] = trap_reason.function)[3]
         ELSE NoHandler
    ELSE IF trap_reason.cause = "GuestLoadPageFault" THEN "guest_load_page_fault"
    ELSE IF trap_reason.cause = "VirtualInstruction" THEN "virtual_instruction_request"
    ELSE IF trap_reason.cause = "GuestStorePageFault" THEN "guest_store_page_fault"
    ELSE NoHandler

\* the handler the match selects for a trap reason, NoHandler for the last arm
selected_handler(trap_reason) ==
    IF trap_reason.cause = "Interrupt" THEN "interrupt"
    ELSE IF trap_reason.cause = "VsEcall"
    THEN IF \E row \in VsEcallTable :
                row[1] = trap_reason.extension /\ row[2] = trap_reason.function
         THEN (CHOOSE row \in VsEcallTable :
                row[1] = trap_reason.extension /\ row[2] = trap_reason.function)[3]
         ELSE IF trap_reason.extension = "Unknown" THEN "invalid_call"
         ELSE NoHandler
    ELSE IF trap_reason.cause = "GuestLoadPageFault" THEN "guest_load_page_fault"
    ELSE IF trap_reason.cause = "VirtualInstruction" THEN "virtual_instruction_request"
    ELSE IF trap_reason.cause = "GuestStorePageFault" THEN "guest_store_page_fault"
    ELSE NoHandler

\* the trap reasons of the declared mapping of the interface
DeclaredTrapReasons ==
    {TrapReason("Interrupt", "-", "-"),
     TrapReason("GuestLoadPageFault", "-", "-"),
     TrapReason("VirtualInstruction", "-", "-"),
     TrapReason("GuestStorePageFault", "-", "-")}
    \cup {TrapReason("VsEcall", row[1], row[2]) : row \in VsEcallTable}

\* a supervisor call of an extension or function the monitor does not know
UnknownVsEcalls ==
    {TrapReason("VsEcall", "Unknown", "-")}

\* trap reasons no arm names: other causes, and a known extension with a
\* function that has no arm
UndelegatedTrapReasons ==
    {TrapReason("HsEcall", "Base", "GetSpecVersion"),
     TrapReason("MachineEcall", "-", "-"),
     TrapReason("IllegalInstruction", "-", "-"),
     TrapReason("VsEcall", "Hsm", "Unknown")}

AllTrapReasons == DeclaredTrapReasons \cup UnknownVsEcalls \cup UndelegatedTrapReasons

\* route_confidential_flow that drains the queue of the hart before the match
route_confidential_flow_draining(h, trap_reason) ==
    /\ ~Aborted
    /\ UNCHANGED non_confidential_vars
    /\ pc[h] = "Guest"
    /\ create(h)
    /\ selected_handler(trap_reason) # NoHandler
    /\ vm_exists(confidential_vm_id(h))
    /\ VmLockFree(confidential_vm_id(h))
    /\ hardware_hart' = [hardware_hart EXCEPT
            ![h].confidential_hart =
                apply_all([@ EXCEPT !.volatile_csrs = "in_main_memory",
                                    !.trap_reason = trap_reason,
                                    !.applied = << >>],
                          map_into_expose(
                            confidential_vms[confidential_vm_id(h)]
                                .inter_hart_requests[confidential_hart_id(h)]))]
    /\ confidential_vms' = [confidential_vms EXCEPT
            ![confidential_vm_id(h)].inter_hart_requests[confidential_hart_id(h)] = << >>]
    /\ pc' = [pc EXCEPT ![h] = "handler"]
    /\ result' = [result EXCEPT ![h] = "None"]
    /\ UNCHANGED <<panic_reason, inflight>>

\* ConfidentialFlow::route_confidential_flow
route_confidential_flow(h, trap_reason) ==
    /\ ~Aborted
    /\ UNCHANGED non_confidential_vars
    /\ pc[h] = "Guest"
    /\ LET stored == [hardware_hart[h] EXCEPT
                        !.confidential_hart =
                            [store_volatile_control_status_registers_in_main_memory(@)
                                EXCEPT !.trap_reason = trap_reason]]
       IN  IF ~create(h)
           THEN /\ Panic(h, "create")
                /\ hardware_hart' = [hardware_hart EXCEPT ![h] = stored]
           ELSE /\ hardware_hart' = [hardware_hart EXCEPT ![h] = under_new_guard(stored)]
                /\ IF selected_handler(trap_reason) = NoHandler
                   THEN Panic(h, "delegation")
                   ELSE /\ pc' = [pc EXCEPT ![h] = "handler"]
                        /\ UNCHANGED panic_reason
    /\ result' = [result EXCEPT ![h] = "None"]
    /\ UNCHANGED <<confidential_vms, inflight>>

(***************************************************************************)
(* Operations a handler performs through the guard it owns.                *)
(***************************************************************************)
\* transformations the handlers hand to exit_to_confidential_hart
HandlerTransformations == {ExposeToConfidentialVm("SbiResult", "handler")}

\* a handler ends by ConfidentialFlow::exit_to_confidential_hart
handler_exit_to_confidential_hart(h, transformation) ==
    /\ ~Aborted
    /\ UNCHANGED non_confidential_vars
    /\ pc[h] = "handler"
    /\ hardware_hart' = [hardware_hart EXCEPT
            ![h] = exit_to_confidential_hart(@, transformation)]
    /\ pc' = [pc EXCEPT ![h] = "exit_to_confidential_hart_asm"]
    /\ result' = [result EXCEPT ![h] = "None"]
    /\ UNCHANGED <<confidential_vms, panic_reason, inflight>>

\* into_non_confidential_flow that yields the guard without returning the hart
into_non_confidential_flow_without_return(h) ==
    /\ ~Aborted
    /\ UNCHANGED non_confidential_vars
    /\ pc[h] = "handler"
    /\ vm_exists(confidential_vm_id(h))
    /\ VmLockFree(confidential_vm_id(h))
    /\ pc' = [pc EXCEPT ![h] = "NonConfidential"]
    /\ result' = [result EXCEPT ![h] = "None"]
    /\ UNCHANGED <<confidential_vms, hardware_hart, panic_reason, inflight>>

\* into_non_confidential_flow that hands the VM a copy of the hart and leaves
\* the hart on the hardware hart
into_non_confidential_flow_copying(h) ==
    /\ ~Aborted
    /\ UNCHANGED non_confidential_vars
    /\ pc[h] = "handler"
    /\ vm_exists(confidential_vm_id(h))
    /\ VmLockFree(confidential_vm_id(h))
    /\ confidential_vms' = swap_confidential_hart(confidential_vms,
            confidential_vm_id(h), confidential_hart_id(h), hardware_hart[h])
    /\ pc' = [pc EXCEPT ![h] = "NonConfidential"]
    /\ result' = [result EXCEPT ![h] = "None"]
    /\ UNCHANGED <<hardware_hart, panic_reason, inflight>>

\* ConfidentialFlow::into_non_confidential_flow
into_non_confidential_flow(h) ==
    /\ ~Aborted
    /\ UNCHANGED non_confidential_vars
    /\ pc[h] = "handler"
    /\ LET id == confidential_vm_id(h)
           slot == confidential_hart_id(h)
       IN  IF vm_exists(id)
           THEN /\ VmLockFree(id)
                /\ confidential_vms' =
                        swap_confidential_hart(confidential_vms, id, slot, hardware_hart[h])
                /\ hardware_hart' = [hardware_hart EXCEPT
                        ![h] = swapped_hardware_hart(confidential_vms, id, slot, @)]
                /\ pc' = [pc EXCEPT ![h] = "NonConfidential"]
                /\ UNCHANGED panic_reason
           ELSE /\ Panic(h, "unwrap")
                /\ UNCHANGED <<confidential_vms, hardware_hart>>
    /\ result' = [result EXCEPT ![h] = "None"]
    /\ UNCHANGED inflight

\* set_pending_request that stores the request over a pending one
set_pending_request_overwriting(h, request) ==
    /\ ~Aborted
    /\ UNCHANGED non_confidential_vars
    /\ pc[h] = "handler"
    /\ hardware_hart' = [hardware_hart EXCEPT
            ![h].confidential_hart.pending_request = request]
    /\ UNCHANGED <<pc, result>>
    /\ UNCHANGED <<confidential_vms, panic_reason, inflight>>

\* ConfidentialHart::set_pending_request: fails when a request is pending
hart_set_pending_request_ok(hart) == hart.pending_request = NoPendingRequest

\* ConfidentialFlow::set_pending_request
set_pending_request(h, request) ==
    /\ ~Aborted
    /\ UNCHANGED non_confidential_vars
    /\ pc[h] = "handler"
    /\ IF hart_set_pending_request_ok(confidential_hart(h))
       THEN /\ hardware_hart' = [hardware_hart EXCEPT
                    ![h].confidential_hart.pending_request = request]
            /\ UNCHANGED <<pc, result>>
       ELSE /\ hardware_hart' = [hardware_hart EXCEPT
                    ![h] = exit_to_confidential_hart(@,
                            into_confidential_transformation("PendingRequestExists"))]
            /\ pc' = [pc EXCEPT ![h] = "exit_to_confidential_hart_asm"]
            /\ result' = [result EXCEPT ![h] = "None"]
    /\ UNCHANGED <<confidential_vms, panic_reason, inflight>>

(***************************************************************************)
(* Hart lifecycle.                                                         *)
(***************************************************************************)
\* ConfidentialHart::transition_from_started_to_suspended
transition_from_started_to_suspended(hart) ==
    IF hart.lifecycle_state = "Started"
    THEN [hart |-> [hart EXCEPT !.lifecycle_state = "Suspended"], result |-> "Ok"]
    ELSE [hart |-> hart, result |-> "Err(CannotSuspendNotStartedHart)"]

\* ConfidentialHart::transition_from_started_to_stopped
transition_from_started_to_stopped(hart) ==
    IF hart.lifecycle_state = "Started"
    THEN [hart |-> [hart EXCEPT !.lifecycle_state = "Stopped"], result |-> "Ok"]
    ELSE [hart |-> hart, result |-> "Err(CannotStopNotStartedHart)"]

\* ConfidentialHart::transition_from_suspended_to_started
transition_from_suspended_to_started(hart) ==
    IF hart.lifecycle_state = "Suspended"
    THEN [hart |-> [hart EXCEPT !.lifecycle_state = "Started"], result |-> "Ok"]
    ELSE [hart |-> hart, result |-> "Err(CannotStartNotSuspendedHart)"]

\* ConfidentialHart::transition_to_shutdown
transition_to_shutdown(hart) == [hart EXCEPT !.lifecycle_state = "Shutdown"]

\* a delegation of the guard to a fallible transition of its hart
Delegate(h, outcome) ==
    /\ ~Aborted
    /\ UNCHANGED non_confidential_vars
    /\ pc[h] = "handler"
    /\ hardware_hart' = [hardware_hart EXCEPT ![h].confidential_hart = outcome.hart]
    /\ result' = [result EXCEPT ![h] = outcome.result]
    /\ UNCHANGED <<confidential_vms, pc, panic_reason, inflight>>

\* suspend_confidential_hart that delegates to the transition of the resume
suspend_confidential_hart_misdelegated(h) ==
    Delegate(h, transition_from_suspended_to_started(confidential_hart(h)))

\* ConfidentialFlow::suspend_confidential_hart
suspend_confidential_hart(h) ==
    Delegate(h, transition_from_started_to_suspended(confidential_hart(h)))

\* ConfidentialFlow::stop_confidential_hart
stop_confidential_hart(h) ==
    Delegate(h, transition_from_started_to_stopped(confidential_hart(h)))

\* ConfidentialFlow::start_confidential_hart_after_suspend
start_confidential_hart_after_suspend(h) ==
    Delegate(h, transition_from_suspended_to_started(confidential_hart(h)))

\* shutdown_confidential_hart that shuts down started harts only
shutdown_confidential_hart_if_started(h) ==
    /\ ~Aborted
    /\ UNCHANGED non_confidential_vars
    /\ pc[h] = "handler"
    /\ hardware_hart' = [hardware_hart EXCEPT
            ![h].confidential_hart =
                IF @.lifecycle_state = "Started" THEN transition_to_shutdown(@) ELSE @]
    /\ result' = [result EXCEPT ![h] = "None"]
    /\ UNCHANGED <<confidential_vms, pc, panic_reason, inflight>>

\* ConfidentialFlow::shutdown_confidential_hart
shutdown_confidential_hart(h) ==
    /\ ~Aborted
    /\ UNCHANGED non_confidential_vars
    /\ pc[h] = "handler"
    /\ hardware_hart' = [hardware_hart EXCEPT
            ![h].confidential_hart = transition_to_shutdown(@)]
    /\ result' = [result EXCEPT ![h] = "None"]
    /\ UNCHANGED <<confidential_vms, pc, panic_reason, inflight>>

\* ConfidentialFlow::is_confidential_hart_shutdown
is_confidential_hart_shutdown(h) == confidential_hart(h).lifecycle_state = "Shutdown"

(***************************************************************************)
(* Inter-hart requests.                                                    *)
(***************************************************************************)
\* ConfidentialVm::broadcast_inter_hart_request: visits the selected harts in
\* the order of their ids; for each one it enqueues the request, unless the
\* queue is full, and notifies the hart; the first failure ends the visit.
\* `undelivered` are the harts whose notification fails.
RECURSIVE vm_broadcast_inter_hart_request(_, _, _, _)
vm_broadcast_inter_hart_request(vm, targets, request, undelivered) ==
    IF targets = {} THEN [vm |-> vm, result |-> "Ok"]
    ELSE LET target == CHOOSE t \in targets : \A u \in targets : t <= u
         IN  IF Len(vm.inter_hart_requests[target]) >= MaxInterHartRequests
             THEN [vm |-> vm, result |-> "Err(ReachedMaxNumberOfRemoteHartRequests)"]
             ELSE LET queued == [vm EXCEPT
                                    !.inter_hart_requests[target] = Append(@, request)]
                  IN  IF target \in undelivered
                      THEN [vm |-> queued, result |-> "Err(InterruptSendingError)"]
                      ELSE vm_broadcast_inter_hart_request(
                                queued, targets \ {target}, request, undelivered)

\* the sibling harts a request selects
selected_harts(request, sender) == request.hart_mask \ {sender}

\* a broadcast that takes the registry for itself before it looks the VM up
broadcast_inter_hart_request_write_locking(h, request) ==
    /\ ~Aborted
    /\ UNCHANGED non_confidential_vars
    /\ pc[h] = "handler"
    /\ WriteLockFree
    /\ IF vm_exists(confidential_vm_id(h))
       THEN /\ hardware_hart' = [hardware_hart EXCEPT ![h] = swap_mscratch(@)]
            /\ inflight' = [inflight EXCEPT ![h] = request]
            /\ pc' = [pc EXCEPT ![h] = "broadcast_swapped"]
            /\ result' = [result EXCEPT ![h] = "None"]
       ELSE /\ result' = [result EXCEPT ![h] = "Err(InvalidConfidentialVmId)"]
            /\ UNCHANGED <<hardware_hart, inflight, pc>>
    /\ UNCHANGED <<confidential_vms, panic_reason>>

\* ConfidentialFlow::broadcast_inter_hart_request: the lookup of the VM and
\* the first swap_mscratch of the closure
broadcast_inter_hart_request(h, request) ==
    /\ ~Aborted
    /\ UNCHANGED non_confidential_vars
    /\ pc[h] = "handler"
    /\ IF vm_exists(confidential_vm_id(h))
       THEN /\ VmLockFree(confidential_vm_id(h))
            /\ hardware_hart' = [hardware_hart EXCEPT ![h] = swap_mscratch(@)]
            /\ inflight' = [inflight EXCEPT ![h] = request]
            /\ pc' = [pc EXCEPT ![h] = "broadcast_swapped"]
            /\ result' = [result EXCEPT ![h] = "None"]
       ELSE /\ result' = [result EXCEPT ![h] = "Err(InvalidConfidentialVmId)"]
            /\ UNCHANGED <<hardware_hart, inflight, pc>>
    /\ UNCHANGED <<confidential_vms, panic_reason>>

\* a broadcast that also applies the request to the targets it finds in the VM
broadcast_inter_hart_request_send_pushing(h, undelivered) ==
    /\ ~Aborted
    /\ UNCHANGED non_confidential_vars
    /\ pc[h] = "broadcast_swapped"
    /\ LET id == confidential_vm_id(h)
           targets == selected_harts(inflight[h], confidential_hart_id(h))
           sent == vm_broadcast_inter_hart_request(
                        confidential_vms[id], targets, inflight[h], undelivered)
           pushed == [sent.vm EXCEPT !.confidential_harts =
                        [slot \in ConfidentialHartIds |->
                            IF slot \in targets /\ ~is_dummy(@[slot])
                            THEN apply(@[slot], into_expose_to_confidential_vm(inflight[h]))
                            ELSE @[slot]]]
       IN  /\ confidential_vms' = [confidential_vms EXCEPT ![id] = pushed]
           /\ result' = [result EXCEPT ![h] = sent.result]
    /\ pc' = [pc EXCEPT ![h] = "broadcast_sent"]
    /\ UNCHANGED <<hardware_hart, panic_reason, inflight>>

\* ... the broadcast of the VM inside the closure
broadcast_inter_hart_request_send(h, undelivered) ==
    /\ ~Aborted
    /\ UNCHANGED non_confidential_vars
    /\ pc[h] = "broadcast_swapped"
    /\ LET id == confidential_vm_id(h)
           sent == vm_broadcast_inter_hart_request(
                        confidential_vms[id],
                        selected_harts(inflight[h], confidential_hart_id(h)),
                        inflight[h], undelivered)
       IN  /\ confidential_vms' = [confidential_vms EXCEPT ![id] = sent.vm]
           /\ result' = [result EXCEPT ![h] = sent.result]
    /\ pc' = [pc EXCEPT ![h] = "broadcast_sent"]
    /\ UNCHANGED <<hardware_hart, panic_reason, inflight>>

\* a return that propagates the error of the broadcast before the second swap
broadcast_inter_hart_request_return_early(h) ==
    /\ ~Aborted
    /\ UNCHANGED non_confidential_vars
    /\ pc[h] = "broadcast_sent"
    /\ hardware_hart' = [hardware_hart EXCEPT
            ![h] = IF result[h] = "Ok" THEN swap_mscratch(@) ELSE @]
    /\ inflight' = [inflight EXCEPT ![h] = NoInterHartRequest]
    /\ pc' = [pc EXCEPT ![h] = "handler"]
    /\ UNCHANGED <<confidential_vms, panic_reason, result>>

\* a return that unwraps the result of the broadcast
broadcast_inter_hart_request_return_unwrapping(h) ==
    /\ ~Aborted
    /\ UNCHANGED non_confidential_vars
    /\ pc[h] = "broadcast_sent"
    /\ hardware_hart' = [hardware_hart EXCEPT ![h] = swap_mscratch(@)]
    /\ inflight' = [inflight EXCEPT ![h] = NoInterHartRequest]
    /\ IF result[h] = "Ok"
       THEN pc' = [pc EXCEPT ![h] = "handler"] /\ UNCHANGED panic_reason
       ELSE Panic(h, "unwrap")
    /\ UNCHANGED <<confidential_vms, result>>

\* ... the second swap_mscratch and the return of the result
broadcast_inter_hart_request_return(h) ==
    /\ ~Aborted
    /\ UNCHANGED non_confidential_vars
    /\ pc[h] = "broadcast_sent"
    /\ hardware_hart' = [hardware_hart EXCEPT ![h] = swap_mscratch(@)]
    /\ inflight' = [inflight EXCEPT ![h] = NoInterHartRequest]
    /\ pc' = [pc EXCEPT ![h] = "handler"]
    /\ UNCHANGED <<confidential_vms, panic_reason, result>>

(***************************************************************************)
(* The registry: creation and removal of confidential VMs.                 *)
(***************************************************************************)
\* harts that are all made from the state of the boot hart
new_confidential_harts_from_boot(hart_state) ==
    [i \in ConfidentialHartIds |-> from_vm_hart(i, hart_state)]

\* the confidential harts create_confidential_vm builds
new_confidential_harts(hart_state) ==
    [i \in ConfidentialHartIds |->
        IF i = 0 THEN from_vm_hart(i, hart_state) ELSE from_vm_hart_reset(i, hart_state)]

\* NonConfidentialFlow::exit_to_hypervisor: the hypervisor runs again on the
\* hardware hart, with the transformation applied
exit_to_hypervisor(h, transformation) ==
    /\ conversion' = [conversion EXCEPT ![h] = [NoConversion EXCEPT !.exposed = transformation]]
    /\ pc' = [pc EXCEPT ![h] = "NonConfidential"]

\* a conversion that unwraps the memory protector
create_confidential_vm_unwrapping(h, hart_state, memory_protector_ok) ==
    /\ ~Aborted
    /\ UNCHANGED memory_vars
    /\ pc[h] = "NonConfidential"
    /\ is_dummy(confidential_hart(h))
    /\ IF memory_protector_ok
       THEN /\ conversion' = [conversion EXCEPT ![h] =
                    [NoConversion EXCEPT
                        !.confidential_harts = new_confidential_harts(hart_state)]]
            /\ pc' = [pc EXCEPT ![h] = "try_write"]
            /\ UNCHANGED panic_reason
       ELSE Panic(h, "unwrap") /\ UNCHANGED conversion
    /\ UNCHANGED <<confidential_vms, hardware_hart, inflight, result>>

\* convert_to_confidential_vm::handle and create_confidential_vm up to the
\* call of ControlData::try_write: the memory protector and the harts
create_confidential_vm(h, hart_state, memory_protector_ok) ==
    /\ ~Aborted
    /\ UNCHANGED memory_vars
    /\ pc[h] = "NonConfidential"
    /\ is_dummy(confidential_hart(h))
    /\ IF memory_protector_ok
       THEN /\ conversion' = [conversion EXCEPT ![h] =
                    [NoConversion EXCEPT
                        !.confidential_harts = new_confidential_harts(hart_state)]]
            /\ pc' = [pc EXCEPT ![h] = "try_write"]
       ELSE exit_to_hypervisor(h, into_non_confidential_transformation("MemoryProtector"))
    /\ UNCHANGED <<confidential_vms, hardware_hart, panic_reason, inflight, result>>

\* an allocation of the id that does not wait for the write lock
create_confidential_vm_unique_id_unlocked(h) ==
    /\ ~Aborted
    /\ UNCHANGED memory_vars
    /\ pc[h] = "try_write"
    /\ IF unique_ids # {}
       THEN /\ \E id \in unique_ids :
                    conversion' = [conversion EXCEPT ![h].id = id]
            /\ pc' = [pc EXCEPT ![h] = "write_locked"]
       ELSE exit_to_hypervisor(h,
                into_non_confidential_transformation("TooManyConfidentialVms"))
    /\ UNCHANGED <<confidential_vms, hardware_hart, panic_reason, inflight, result>>

\* ... ControlData::try_write takes the write lock and the closure asks for
\* an id; without one the error leaves the closure and the function
create_confidential_vm_unique_id(h) ==
    /\ ~Aborted
    /\ UNCHANGED memory_vars
    /\ pc[h] = "try_write"
    /\ WriteLockFree
    /\ IF unique_ids # {}
       THEN /\ \E id \in unique_ids :
                    conversion' = [conversion EXCEPT ![h].id = id]
            /\ pc' = [pc EXCEPT ![h] = "write_locked"]
       ELSE exit_to_hypervisor(h,
                into_non_confidential_transformation("TooManyConfidentialVms"))
    /\ UNCHANGED <<confidential_vms, hardware_hart, panic_reason, inflight, result>>

\* ... the closure inserts the VM, the write lock is released and handle
\* exits to the hypervisor with the id
create_confidential_vm_insert(h) ==
    /\ ~Aborted
    /\ UNCHANGED memory_vars
    /\ pc[h] = "write_locked"
    /\ confidential_vms' = insert_confidential_vm(confidential_vms, conversion[h].id,
            ConfidentialVm_new(conversion[h].id, conversion[h].confidential_harts))
    /\ exit_to_hypervisor(h, kvm_ace_register(conversion[h].id, BOOT_HART_ID))
    /\ UNCHANGED <<hardware_hart, panic_reason, inflight, result>>

\* ControlData::remove_confidential_vm: removes a VM that owns all its harts
remove_confidential_vm(h, id) ==
    /\ ~Aborted
    /\ UNCHANGED memory_vars
    /\ conversion' = [conversion EXCEPT ![h] = NoConversion]
    /\ pc[h] = "NonConfidential"
    /\ is_dummy(confidential_hart(h))
    /\ vm_exists(id)
    /\ WriteLockFree
    /\ \A slot \in ConfidentialHartIds :
            ~is_dummy(confidential_vms[id].confidential_harts[slot])
    /\ confidential_vms' = [i \in DOMAIN confidential_vms \ {id} |-> confidential_vms[i]]
    /\ UNCHANGED <<hardware_hart, pc, panic_reason, inflight, result>>

(***************************************************************************)
(* The system.                                                             *)
(***************************************************************************)
\* the inputs of the specifications
InterruptTrap == TrapReason("Interrupt", "-", "-")
SendIpiTrap == TrapReason("VsEcall", "Ipi", "SendIpi")
\* the broadcasts select the harts other than the boot hart
BroadcastRequests ==
    {[kind |-> k, hart_mask |-> ConfidentialHartIds \ {BOOT_HART_ID}] :
        k \in InterHartRequestKinds}

\* the state after one conversion: a VM with all its harts
InitVm ==
    /\ confidential_vms =
            insert_confidential_vm(<< >>, 1, ConfidentialVm_new(1, new_confidential_harts("boot")))
    /\ hardware_hart = [h \in HardwareHarts |-> HardwareHart_new(h)]
    /\ pc = [h \in HardwareHarts |-> "NonConfidential"]
    /\ panic_reason = [h \in HardwareHarts |-> "None"]
    /\ inflight = [h \in HardwareHarts |-> NoInterHartRequest]
    /\ result = [h \in HardwareHarts |-> "None"]
    /\ memory_layout = BootMemoryLayout
    /\ shared_page = NoSharedPage
    /\ conversion = [h \in HardwareHarts |-> NoConversion]

\* entering and leaving the confidential flow
FlowNext(h, trap_reasons) ==
    \/ \E id \in ConfidentialVmIds, slot \in ConfidentialHartIds :
            into_confidential_flow(h, id, slot)
    \/ resume_confidential_hart_execution(h)
    \/ process_inter_hart_requests(h)
    \/ resume_pending_request(h)
    \/ exit_to_confidential_hart_asm(h)
    \/ \E trap_reason \in trap_reasons : route_confidential_flow(h, trap_reason)
    \/ \E t \in HandlerTransformations : handler_exit_to_confidential_hart(h, t)
    \/ into_non_confidential_flow(h)

\* the registry and the ownership of the confidential harts
Next ==
    \E h \in HardwareHarts :
        \/ create_confidential_vm(h, "boot", TRUE)
        \/ create_confidential_vm(h, "boot", FALSE)
        \/ create_confidential_vm_unique_id(h)
        \/ create_confidential_vm_insert(h)
        \/ \E id \in ConfidentialVmIds : remove_confidential_vm(h, id)
        \/ FlowNext(h, {InterruptTrap})

Spec == Init /\ [][Next]_vars

\* inter-hart requests and pending requests of the harts of one VM
NextInterHart ==
    \E h \in HardwareHarts :
        \/ FlowNext(h, {InterruptTrap})
        \/ set_pending_request(h, "SbiRequest")
        \/ \E request \in BroadcastRequests : broadcast_inter_hart_request(h, request)
        \/ \E undelivered \in SUBSET ConfidentialHartIds :
                broadcast_inter_hart_request_send(h, undelivered)
        \/ broadcast_inter_hart_request_return(h)

SpecInterHart == InitVm /\ [][NextInterHart]_vars

\* traps of every kind of cause while siblings broadcast
TrapEntryReasons ==
    {InterruptTrap, SendIpiTrap, TrapReason("GuestLoadPageFault", "-", "-")}

NextTrapEntry ==
    \E h \in HardwareHarts :
        \/ FlowNext(h, TrapEntryReasons)
        \/ \E request \in BroadcastRequests : broadcast_inter_hart_request(h, request)
        \/ \E undelivered \in SUBSET ConfidentialHartIds :
                broadcast_inter_hart_request_send(h, undelivered)
        \/ broadcast_inter_hart_request_return(h)

SpecTrapEntry == InitVm /\ [][NextTrapEntry]_vars

\* the lifecycle of the harts of one VM
NextLifecycle ==
    \E h \in HardwareHarts :
        \/ FlowNext(h, {InterruptTrap})
        \/ suspend_confidential_hart(h)
        \/ stop_confidential_hart(h)
        \/ start_confidential_hart_after_suspend(h)
        \/ shutdown_confidential_hart(h)

SpecLifecycle == InitVm /\ [][NextLifecycle]_vars

\* the dispatch of every trap reason
NextDispatch ==
    \E h \in HardwareHarts : FlowNext(h, AllTrapReasons)

SpecDispatch == InitVm /\ [][NextDispatch]_vars

\* the requests the handlers of one VM leave pending
PendingRequestInputs == {"SbiRequest", "SharePage"}

NextPending ==
    \E h \in HardwareHarts :
        \/ FlowNext(h, {InterruptTrap})
        \/ \E request \in PendingRequestInputs : set_pending_request(h, request)

SpecPending == InitVm /\ [][NextPending]_vars

\* broadcasts among the harts of one VM that are resumed again and again; the
\* code of the monitor that runs on a hardware hart runs on
NextBroadcast ==
    \E h \in HardwareHarts :
        \/ FlowNext(h, {InterruptTrap})
        \/ \E request \in BroadcastRequests : broadcast_inter_hart_request(h, request)
        \/ \E undelivered \in SUBSET ConfidentialHartIds :
                broadcast_inter_hart_request_send(h, undelivered)
        \/ broadcast_inter_hart_request_return(h)

MonitorRuns(h) ==
    \/ process_inter_hart_requests(h) /\ pc[h] = "resume_process"
    \/ resume_pending_request(h)
    \/ exit_to_confidential_hart_asm(h)
    \/ \E undelivered \in SUBSET ConfidentialHartIds :
            broadcast_inter_hart_request_send(h, undelivered)
    \/ broadcast_inter_hart_request_return(h)

SpecBroadcastLive ==
    /\ InitVm
    /\ [][NextBroadcast]_vars
    /\ \A h \in HardwareHarts : WF_vars(MonitorRuns(h))

\* the state after two conversions: two VMs with all their harts
InitTwoVms ==
    /\ confidential_vms =
            [id \in {1, 2} |-> ConfidentialVm_new(id, new_confidential_harts("boot"))]
    /\ hardware_hart = [h \in HardwareHarts |-> HardwareHart_new(h)]
    /\ pc = [h \in HardwareHarts |-> "NonConfidential"]
    /\ panic_reason = [h \in HardwareHarts |-> "None"]
    /\ inflight = [h \in HardwareHarts |-> NoInterHartRequest]
    /\ result = [h \in HardwareHarts |-> "None"]
    /\ memory_layout = BootMemoryLayout
    /\ shared_page = NoSharedPage
    /\ conversion = [h \in HardwareHarts |-> NoConversion]

\* broadcasts among the harts of two VMs
SpecTwoVms == InitTwoVms /\ [][NextBroadcast]_vars

\* the hart states the hypervisor supplies with a conversion
HartStateInputs == {"boot_a", "boot_b"}

\* conversions and removals that the hardware harts run for the hypervisor
NextConversion ==
    \E h \in HardwareHarts :
        \/ \E hart_state \in HartStateInputs, memory_protector_ok \in BOOLEAN :
                create_confidential_vm(h, hart_state, memory_protector_ok)
        \/ create_confidential_vm_unique_id(h)
        \/ create_confidential_vm_insert(h)
        \/ \E id \in ConfidentialVmIds : remove_confidential_vm(h, id)

SpecConversion == Init /\ [][NextConversion]_vars

\* a conversion while the harts of the VMs that exist broadcast
InterProcessorInterrupts ==
    {[kind |-> "InterProcessorInterrupt", hart_mask |-> ConfidentialHartIds \ {BOOT_HART_ID}]}

NextLocks ==
    \E h \in HardwareHarts :
        \/ create_confidential_vm(h, "boot", TRUE)
        \/ create_confidential_vm_unique_id(h)
        \/ create_confidential_vm_insert(h)
        \/ FlowNext(h, {InterruptTrap})
        \/ \E request \in InterProcessorInterrupts : broadcast_inter_hart_request(h, request)
        \/ broadcast_inter_hart_request_send(h, {})
        \/ broadcast_inter_hart_request_return(h)

SpecLocks == InitVm /\ [][NextLocks]_vars

\* the memory layout of a boot and the calls of SharedPage::new under it
InitSharedPage ==
    /\ confidential_vms = << >>
    /\ hardware_hart = [h \in HardwareHarts |-> HardwareHart_new(h)]
    /\ pc = [h \in HardwareHarts |-> "NonConfidential"]
    /\ panic_reason = [h \in HardwareHarts |-> "None"]
    /\ inflight = [h \in HardwareHarts |-> NoInterHartRequest]
    /\ result = [h \in HardwareHarts |-> "None"]
    /\ memory_layout \in MemoryLayouts
    /\ shared_page = NoSharedPage
    /\ conversion = [h \in HardwareHarts |-> NoConversion]

new_shared_page(hypervisor_address, request) ==
    /\ shared_page' =
            [hypervisor_address |-> hypervisor_address,
             page_size |-> request.page_size,
             returned |-> SharedPage_new(memory_layout, hypervisor_address, request)]
    /\ UNCHANGED <<confidential_vms, hardware_hart, pc, panic_reason, inflight, result,
                   memory_layout, conversion>>

NextSharedPage ==
    \E hypervisor_address \in Usize, request \in SharePageRequest :
        new_shared_page(hypervisor_address, request)

SpecSharedPage == InitSharedPage /\ [][NextSharedPage]_vars

(***************************************************************************)
(* Properties.                                                             *)
(***************************************************************************)
\* the confidential hart a hardware hart holds: its VM and its id in the VM
assigned(h) == <<confidential_vm_id(h), confidential_hart_id(h)>>
holds_guard(h) == pc[h] \in GuardPcs

\* C1: exclusive ownership.  No two hardware harts hold the same confidential
\* hart, and no two ConfidentialFlow guards exist over the same confidential
\* hart, whatever the harts do.
ExclusiveOwnership ==
    \A h1, h2 \in HardwareHarts :
        h1 # h2 =>
            /\ (~is_dummy(confidential_hart(h1)) /\ ~is_dummy(confidential_hart(h2)))
                    => assigned(h1) # assigned(h2)
            /\ (holds_guard(h1) /\ holds_guard(h2)) => assigned(h1) # assigned(h2)

\* two guards exist at the same time, over the two harts of one VM
ExclusiveOwnershipWitness ==
    \E h1, h2 \in HardwareHarts :
        /\ h1 # h2
        /\ holds_guard(h1) /\ holds_guard(h2)
        /\ ~is_dummy(confidential_hart(h1)) /\ ~is_dummy(confidential_hart(h2))
        /\ confidential_vm_id(h1) = confidential_vm_id(h2)

\* the queue of the confidential hart a hardware hart holds
inter_hart_requests(h) ==
    confidential_vms[confidential_vm_id(h)].inter_hart_requests[confidential_hart_id(h)]
pending_request(h) == confidential_hart(h).pending_request
applied(h) == confidential_hart(h).applied

\* the transformations of a queue, oldest request first
in_enqueue_order(queue) ==
    [i \in 1..Len(queue) |-> [variant |-> queue[i].kind, origin |-> "InterHartRequest"]]

\* the steps of the resume protocol of one hardware hart
ResumeOrderStep(h) ==
    \* the pending request is taken at one place only: after the drain
    /\ (pc[h] # "resume_take" /\ pc'[h] = "resume_take") => pc[h] = "resume_process"
    /\ (assigned(h)' = assigned(h) /\ ~is_dummy(confidential_hart(h))
            /\ pending_request(h) # NoPendingRequest
            /\ pending_request(h)' = NoPendingRequest)
        => (pc[h] = "resume_take" /\ pc'[h] = "exit_to_confidential_hart_asm")
    \* the drain applies the whole queue, oldest first, and leaves the
    \* pending request in its slot
    /\ (pc[h] = "resume_process" /\ pc'[h] = "resume_take")
        => /\ applied(h)' = in_enqueue_order(inter_hart_requests(h))
           /\ inter_hart_requests(h)' = << >>
           /\ pending_request(h)' = pending_request(h)
    \* the pending request is resolved after the drain, by one transformation
    /\ (pc[h] = "resume_take" /\ pc'[h] = "exit_to_confidential_hart_asm")
        => /\ pending_request(h)' = NoPendingRequest
           /\ applied(h)' =
                <<IF pending_request(h) = NoPendingRequest
                  THEN [variant |-> "Resume", origin |-> "Resume"]
                  ELSE [variant |-> pending_request(h), origin |-> "PendingRequest"]>>

\* C2: resume order.  In resume_confidential_hart_execution every queued
\* inter-hart request is applied before the pending request is taken and
\* resolved, and the queued requests are applied in the order of their enqueue.
ResumeOrder ==
    /\ [](\A h \in HardwareHarts : pc[h] = "resume_process" => applied(h) = << >>)
    /\ [][\A h \in HardwareHarts : ResumeOrderStep(h)]_vars

\* a hart with a pending request has had two different queued requests applied
\* and its pending request is still to be taken
ResumeOrderWitness ==
    \E h \in HardwareHarts :
        /\ pc[h] = "resume_take"
        /\ pending_request(h) # NoPendingRequest
        /\ Len(applied(h)) = 2
        /\ applied(h)[1] # applied(h)[2]

\* route_confidential_flow hands the trap of a hardware hart to a handler
Dispatched(h) == pc[h] = "Guest" /\ pc'[h] = "handler"

\* C3 as claimed: on trap entry the requests queued for the hart are drained
\* and applied before a handler is selected and run.
TrapEntryDrainsQueue ==
    [][\A h \in HardwareHarts :
        Dispatched(h) =>
            /\ inter_hart_requests(h)' = << >>
            /\ applied(h)' = in_enqueue_order(inter_hart_requests(h))]_vars

\* C3, amended: on trap entry route_confidential_flow constructs the guard and
\* selects the handler without draining: the queue of the hart is as it was and
\* nothing is applied.  Requests leave a queue only when the hart that owns it
\* runs process_inter_hart_requests, in the resume protocol or in a handler,
\* and they are all applied then.
TrapEntryLeavesQueue ==
    /\ [][\A h \in HardwareHarts :
            Dispatched(h) =>
                /\ inter_hart_requests(h)' = inter_hart_requests(h)
                /\ applied(h)' = << >>]_vars
    /\ [][\A id \in DOMAIN confidential_vms \cap DOMAIN confidential_vms',
             slot \in ConfidentialHartIds :
            confidential_vms'[id].inter_hart_requests[slot]
                    # confidential_vms[id].inter_hart_requests[slot]
                /\ confidential_vms'[id].inter_hart_requests[slot] = << >>
            => \E h \in HardwareHarts :
                /\ pc[h] \in {"resume_process", "handler"}
                /\ assigned(h) = <<id, slot>>
                /\ pc'[h] = IF pc[h] = "resume_process" THEN "resume_take" ELSE "handler"
                /\ applied(h)' =
                        in_enqueue_order(confidential_vms[id].inter_hart_requests[slot])]_vars

\* a handler selected for a supervisor call runs while the queue of its hart
\* is full and nothing of it is applied
TrapEntryLeavesQueueWitness ==
    \E h \in HardwareHarts :
        /\ pc[h] = "handler"
        /\ confidential_hart(h).trap_reason = SendIpiTrap
        /\ result[h] = "None"
        /\ applied(h) = << >>
        /\ Len(inter_hart_requests(h)) = MaxInterHartRequests

\* the trap a hardware hart is handling
trap_reason(h) == confidential_hart(h).trap_reason
handles_trap(h) == holds_guard(h) /\ trap_reason(h) # NoTrapReason
aborted_in_dispatch(h) == pc[h] = "panic" /\ panic_reason[h] = "delegation"

\* C4 as claimed: every trap reason outside the declared mapping aborts the
\* monitor, a supervisor call of an unknown extension or function included:
\* a handler runs for declared trap reasons only.
UndeclaredTrapAborts ==
    \A h \in HardwareHarts : handles_trap(h) => trap_reason(h) \in DeclaredTrapReasons

\* C4, amended: a trap reason that no arm of the match names aborts the
\* monitor, and no handler runs for it; a supervisor call of an unknown
\* extension or function (SbiExtension::Unknown) does not abort, a handler runs
\* for it; the monitor aborts in dispatch for no other trap reason.
FatalUnreachability ==
    /\ [](\A h \in HardwareHarts :
            /\ handles_trap(h) =>
                    trap_reason(h) \in DeclaredTrapReasons \cup UnknownVsEcalls
            /\ aborted_in_dispatch(h) =>
                    trap_reason(h) \notin DeclaredTrapReasons \cup UnknownVsEcalls)
    /\ [][\A h \in HardwareHarts :
            (pc[h] = "Guest" /\ pc'[h] # "Guest") =>
                IF trap_reason(h)' \in DeclaredTrapReasons \cup UnknownVsEcalls
                THEN pc'[h] = "handler"
                ELSE aborted_in_dispatch(h)']_vars

\* a handler runs for an unknown supervisor call on one hart, and the monitor
\* aborted on a trap without an arm on another
FatalUnreachabilityWitness ==
    \E h1, h2 \in HardwareHarts :
        /\ pc[h1] = "handler" /\ trap_reason(h1) \in UnknownVsEcalls
        /\ aborted_in_dispatch(h2) /\ trap_reason(h2) \in UndelegatedTrapReasons

lifecycle_state(h) == confidential_hart(h).lifecycle_state
is_error(value) == value \notin {"Ok", "None"}

\* a fallible transition of the hart of h: it succeeds from `from` only, and
\* a failure is an error value that leaves the hart and the flow as they were
LegalTransition(h, from, to) ==
    IF lifecycle_state(h) = from
    THEN result'[h] = "Ok" /\ lifecycle_state(h)' = to
    ELSE /\ is_error(result'[h])
         /\ lifecycle_state(h)' = lifecycle_state(h)
         /\ pc'[h] = "handler"

\* C5: lifecycle legality.  suspend, stop and start-after-suspend succeed iff
\* the pair is Started+suspend, Started+stop or Suspended+start-after-suspend;
\* every other pair returns a recoverable error and changes no state.
LifecycleLegality ==
    [][\A h \in HardwareHarts :
        /\ suspend_confidential_hart(h) => LegalTransition(h, "Started", "Suspended")
        /\ stop_confidential_hart(h) => LegalTransition(h, "Started", "Stopped")
        /\ start_confidential_hart_after_suspend(h)
                => LegalTransition(h, "Suspended", "Started")]_vars

\* a stopped hart was asked to suspend: an error, and the hart is still stopped
LifecycleLegalityWitness ==
    \E h \in HardwareHarts :
        /\ pc[h] = "handler"
        /\ confidential_hart_id(h) = BOOT_HART_ID
        /\ lifecycle_state(h) = "Stopped"
        /\ result[h] = "Err(CannotSuspendNotStartedHart)"

\* the confidential hart of a VM, in its slot or on a hardware hart
hart_of(id, slot) ==
    IF ~is_dummy(confidential_vms[id].confidential_harts[slot])
    THEN confidential_vms[id].confidential_harts[slot]
    ELSE confidential_hart(CHOOSE h \in HardwareHarts : assigned(h) = <<id, slot>>)

\* C6: shutdown is unconditional and terminal.  shutdown_confidential_hart
\* moves the hart to Shutdown from every state without failing, and a hart in
\* Shutdown stays in Shutdown whatever operation follows.
ShutdownIsTerminal ==
    /\ [][\A h \in HardwareHarts :
            shutdown_confidential_hart(h) =>
                is_confidential_hart_shutdown(h)' /\ pc'[h] = "handler"]_vars
    /\ [][\A id \in DOMAIN confidential_vms \cap DOMAIN confidential_vms',
             slot \in ConfidentialHartIds :
            hart_of(id, slot).lifecycle_state = "Shutdown"
                => hart_of(id, slot)'.lifecycle_state = "Shutdown"]_vars

\* a hart that was shut down while suspended or stopped was then asked to
\* start, and is still shut down
ShutdownIsTerminalWitness ==
    \E h \in HardwareHarts :
        /\ pc[h] = "handler"
        /\ is_confidential_hart_shutdown(h)
        /\ confidential_hart_id(h) # BOOT_HART_ID
        /\ result[h] = "Err(CannotStartNotSuspendedHart)"

\* the bytes of the page a call of SharedPage::new names
page_bytes == {shared_page.hypervisor_address + i :
                    i \in 0..(in_bytes(shared_page.page_size) - 1)}
non_confidential_memory ==
    {a \in Usize : /\ memory_layout.non_confidential_memory_start <= a
                   /\ a < memory_layout.non_confidential_memory_end}

\* the last byte of the page is past the end of the machine word
overflows == shared_page.hypervisor_address + in_bytes(shared_page.page_size) - 1 > UsizeMax

mscratch(h) == hardware_hart[h].mscratch
inner_broadcast_runs(h) == pc[h] \in BroadcastPcs
broadcast_returned(h) == pc[h] = "broadcast_sent" /\ pc'[h] = "handler"

\* C8: paired scratch swap.  Whatever the broadcast of the VM returns (Ok, a
\* delivery failure, a full queue) and when the VM is not found, the scratch
\* register holds after broadcast_inter_hart_request the value it held before
\* it, and the value of the firmware is in the register only while the
\* broadcast of the VM runs.
PairedScratchSwap ==
    /\ [](\A h \in HardwareHarts :
            /\ mscratch(h) = "firmware" <=> inner_broadcast_runs(h)
            /\ mscratch(h) = "monitor" <=> ~inner_broadcast_runs(h)
            /\ hardware_hart[h].previous_mscratch # mscratch(h))
    /\ [][\A h \in HardwareHarts :
            /\ (pc[h] = "handler" /\ inner_broadcast_runs(h)') =>
                    mscratch(h) = "monitor" /\ mscratch(h)' = "firmware"
            /\ broadcast_returned(h) => mscratch(h)' = "monitor"
            /\ (pc[h] = "handler" /\ pc'[h] = "handler") => mscratch(h)' = mscratch(h)]_vars

\* a broadcast that failed to deliver has returned, and the register holds the
\* value of the monitor
PairedScratchSwapWitness ==
    \E h \in HardwareHarts :
        /\ pc[h] = "handler"
        /\ result[h] = "Err(InterruptSendingError)"
        /\ mscratch(h) = "monitor"
        /\ hardware_hart[h].previous_mscratch = "firmware"

\* the guards and the VMs of the registry
guard_resolves(h) ==
    /\ ~is_dummy(confidential_hart(h))
    /\ vm_exists(confidential_vm_id(h))
registry_changes == DOMAIN confidential_vms' # DOMAIN confidential_vms

home(h) == confidential_vms[confidential_vm_id(h)].confidential_harts[confidential_hart_id(h)]
leaves_confidential_flow(h) == pc[h] = "handler" /\ pc'[h] = "NonConfidential"

\* C10: leaving the confidential flow.  into_non_confidential_flow puts the
\* hart the hardware hart held into the slot of its VM that the hart's ids
\* name and leaves the dummy hart on the same hardware hart, now in the
\* non-confidential flow; as long as a hardware hart holds a hart, the slot
\* of the hart in its VM holds a dummy.
LeavingConfidentialFlow ==
    /\ [](\A h \in HardwareHarts :
            (~is_dummy(confidential_hart(h)) /\ vm_exists(confidential_vm_id(h)))
                => is_dummy(home(h)))
    /\ [][\A h \in HardwareHarts :
            leaves_confidential_flow(h) =>
                /\ confidential_vms'[confidential_vm_id(h)]
                        .confidential_harts[confidential_hart_id(h)]
                            = without_guard(confidential_hart(h))
                /\ is_dummy(confidential_hart(h))'
                /\ hardware_hart'[h].mscratch = hardware_hart[h].mscratch
                /\ \A other \in HardwareHarts \ {h} :
                        hardware_hart'[other] = hardware_hart[other] /\ pc'[other] = pc[other]]_vars

\* a hart is back in its VM with the request its handler left pending, and
\* its hardware hart is in the non-confidential flow with the dummy hart
LeavingConfidentialFlowWitness ==
    \E h \in HardwareHarts, id \in ConfidentialVmIds, slot \in ConfidentialHartIds :
        /\ pc[h] = "NonConfidential"
        /\ is_dummy(confidential_hart(h))
        /\ vm_exists(id)
        /\ ~is_dummy(confidential_vms[id].confidential_harts[slot])
        /\ confidential_vms[id].confidential_harts[slot].pending_request # NoPendingRequest

\* the pending-request slot of a confidential hart, wherever the hart is
slot_of(id, slot) == hart_of(id, slot).pending_request
takes_request(h) == pc[h] = "resume_take" /\ pc'[h] = "exit_to_confidential_hart_asm"
resolved_requests(h) ==
    {applied(h)[i].variant : i \in {j \in DOMAIN applied(h) :
                                        applied(h)[j].origin = "PendingRequest"}}

\* C11: the pending request is consumed exactly once.  The resume takes the
\* request out of its slot: the slot is empty after it, the request is
\* resolved by one transformation in that step and in no other, and a slot
\* is filled again only by a handler; with an empty slot the resume applies
\* the plain Resume transformation and resolves nothing.
PendingConsumedOnce ==
    /\ [][\A h \in HardwareHarts :
            /\ takes_request(h) =>
                    /\ pending_request(h)' = NoPendingRequest
                    /\ applied(h)' =
                            <<IF pending_request(h) = NoPendingRequest
                              THEN ExposeToConfidentialVm("Resume", "Resume")
                              ELSE PendingResult(pending_request(h))>>
                    /\ resolved_requests(h)' = {pending_request(h)} \ {NoPendingRequest}
            /\ (resolved_requests(h)' # {} /\ applied(h)' # applied(h)) =>
                    takes_request(h) /\ pending_request(h) # NoPendingRequest]_vars
    /\ [][\A id \in DOMAIN confidential_vms, slot \in ConfidentialHartIds :
            slot_of(id, slot)' # slot_of(id, slot) =>
                \E h \in HardwareHarts :
                    /\ assigned(h) = <<id, slot>>
                    /\ IF slot_of(id, slot) = NoPendingRequest
                       THEN pc[h] = "handler" /\ pc'[h] = "handler"
                       ELSE takes_request(h) /\ slot_of(id, slot)' = NoPendingRequest]_vars

\* a resume has taken the request a handler left pending: the request is
\* resolved and its slot is empty
PendingConsumedOnceWitness ==
    \E h \in HardwareHarts :
        /\ pc[h] = "exit_to_confidential_hart_asm"
        /\ applied(h) = <<PendingResult("SbiRequest")>>
        /\ pending_request(h) = NoPendingRequest

\* what the hart of h is told when a request is already pending
pending_request_exists == into_confidential_transformation("PendingRequestExists")

\* C12: set_pending_request failure.  With an empty slot the request is
\* stored and the guard goes back to the handler; with a request pending
\* the guard is not returned: the flow exits to the confidential hart with the
\* transformation of the error, the pending request is the one it was and the
\* hart is still on its hardware hart.  A pending request is never replaced by
\* another one.
SetPendingRequestFailure ==
    /\ [][\A h \in HardwareHarts, request \in PendingRequestInputs :
            set_pending_request(h, request) =>
                IF pending_request(h) = NoPendingRequest
                THEN /\ pending_request(h)' = request
                     /\ pc'[h] = "handler"
                     /\ applied(h)' = applied(h)
                ELSE /\ pc'[h] = "exit_to_confidential_hart_asm"
                     /\ applied(h)' = <<pending_request_exists>>
                     /\ pending_request(h)' = pending_request(h)
                     /\ assigned(h)' = assigned(h)
                     /\ ~is_dummy(confidential_hart(h))'
                     /\ confidential_vms' = confidential_vms]_vars
    /\ [][\A id \in DOMAIN confidential_vms, slot \in ConfidentialHartIds :
            slot_of(id, slot) # NoPendingRequest =>
                slot_of(id, slot)' \in {slot_of(id, slot), NoPendingRequest}]_vars

\* a handler asked to leave a second request pending: the hart is told of the
\* error and the first request is still pending
SetPendingRequestFailureWitness ==
    \E h \in HardwareHarts :
        /\ pc[h] = "exit_to_confidential_hart_asm"
        /\ applied(h) = <<pending_request_exists>>
        /\ pending_request(h) = "SharePage"

\* the queue of a confidential hart of a VM
queue_of(id, slot) ==
    IF vm_exists(id) THEN confidential_vms[id].inter_hart_requests[slot] ELSE << >>
owner_drains(id, slot, h) ==
    /\ assigned(h) = <<id, slot>>
    /\ pc[h] \in {"resume_process", "handler"}
    /\ pc'[h] = IF pc[h] = "resume_process" THEN "resume_take" ELSE "handler"
resumes(id, slot) ==
    \E h \in HardwareHarts :
        /\ pc[h] \in {"NonConfidential", "resume_entry"}
        /\ pc'[h] = "resume_process"
        /\ assigned(h)' = <<id, slot>>
queued(id, slot) == queue_of(id, slot) # << >>
drained(id, slot) ==
    /\ vm_exists(id)
    /\ queue_of(id, slot) = << >>
    /\ \E h \in HardwareHarts :
            /\ assigned(h) = <<id, slot>>
            /\ pc[h] \in {"resume_take", "handler"}
            /\ applied(h) # << >>
            /\ \A i \in DOMAIN applied(h) : applied(h)[i].origin = "InterHartRequest"

\* C13: eventual application.  A queue loses requests in one way only: its
\* owner drains it, in the resume protocol or in a handler, and applies all
\* the requests that were in it; every resume of a hart drains its queue
\* before the next one; so, for a hart that is resumed again and again,
\* requests in its queue lead to the queue drained and applied.
EventualApplication ==
    /\ [][\A id \in ConfidentialVmIds, slot \in ConfidentialHartIds :
            (vm_exists(id) /\ vm_exists(id)' /\ queue_of(id, slot)' # queue_of(id, slot)) =>
                \/ /\ Len(queue_of(id, slot)') = Len(queue_of(id, slot)) + 1
                   /\ SubSeq(queue_of(id, slot)', 1, Len(queue_of(id, slot)))
                            = queue_of(id, slot)
                \/ /\ queue_of(id, slot)' = << >>
                   /\ \E h \in HardwareHarts :
                        /\ owner_drains(id, slot, h)
                        /\ applied(h)' = in_enqueue_order(queue_of(id, slot))]_vars
    /\ [][\A h \in HardwareHarts :
            (pc[h] = "resume_process" /\ pc'[h] # "resume_process" /\ ~Aborted') =>
                /\ owner_drains(confidential_vm_id(h), confidential_hart_id(h), h)
                /\ inter_hart_requests(h)' = << >>
                /\ applied(h)' = in_enqueue_order(inter_hart_requests(h))]_vars
    /\ \A id \in ConfidentialVmIds, slot \in ConfidentialHartIds :
            []<><<resumes(id, slot)>>_vars => (queued(id, slot) ~> drained(id, slot))

\* the queue of a hart that was away is drained in its resume: both requests
\* that were queued for it are applied
EventualApplicationWitness ==
    \E h \in HardwareHarts :
        /\ pc[h] = "resume_take"
        /\ Len(applied(h)) = MaxInterHartRequests
        /\ drained(confidential_vm_id(h), confidential_hart_id(h))

\* a step of broadcast_inter_hart_request on hardware hart h
broadcasts(h) ==
    \/ pc[h] = "handler" /\ pc'[h] = "broadcast_swapped"
    \/ pc[h] = "handler" /\ pc'[h] = "handler" /\ result'[h] = "Err(InvalidConfidentialVmId)"
    \/ pc[h] \in BroadcastPcs /\ pc'[h] # pc[h]
\* the request of the broadcast h is in
broadcast_request(h) == IF pc[h] = "handler" THEN inflight'[h] ELSE inflight[h]

\* C14: pull-based delivery.  A step of broadcast_inter_hart_request changes,
\* in the registry, nothing but the queues of the harts of the sender's VM
\* that the request selects, each by the enqueue of the request; every
\* confidential hart, in its VM or on a hardware hart, is as it was, and so
\* are the queues of the other VMs.  Queued requests are applied to a hart
\* only by the drain its own hardware hart runs.
PullBasedDelivery ==
    /\ [][\A h \in HardwareHarts :
            broadcasts(h) =>
                /\ DOMAIN confidential_vms' = DOMAIN confidential_vms
                /\ \A id \in DOMAIN confidential_vms, slot \in ConfidentialHartIds :
                        /\ confidential_vms'[id].confidential_harts[slot]
                                = confidential_vms[id].confidential_harts[slot]
                        /\ queue_of(id, slot)' # queue_of(id, slot) =>
                                /\ id = confidential_vm_id(h)
                                /\ slot \in broadcast_request(h).hart_mask
                                /\ slot # confidential_hart_id(h)
                                /\ queue_of(id, slot)'
                                        = Append(queue_of(id, slot), broadcast_request(h))
                /\ \A other \in HardwareHarts :
                        /\ confidential_hart(other)' = confidential_hart(other)
                        /\ other # h => hardware_hart'[other] = hardware_hart[other]
                                            /\ pc'[other] = pc[other]]_vars
    /\ [][\A h \in HardwareHarts :
            (applied(h)' # applied(h)
                /\ \E i \in DOMAIN applied(h)' : applied(h)'[i].origin = "InterHartRequest")
            => owner_drains(confidential_vm_id(h), confidential_hart_id(h), h)]_vars

\* a broadcast on a hart of one VM has filled the queue of its sibling, which
\* is in its VM as it was created; the queues of the other VM are empty
PullBasedDeliveryWitness ==
    \E h \in HardwareHarts :
        /\ pc[h] = "broadcast_sent"
        /\ confidential_vm_id(h) = 1
        /\ result[h] = "Ok"
        /\ \E slot \in ConfidentialHartIds :
                /\ Len(queue_of(1, slot)) = MaxInterHartRequests
                /\ confidential_vms[1].confidential_harts[slot]
                        = ConfidentialVm_new(1, new_confidential_harts("boot"))
                                .confidential_harts[slot]
        /\ \A slot \in ConfidentialHartIds : queue_of(2, slot) = << >>
        /\ \E other \in HardwareHarts : confidential_vm_id(other) = 2

\* the siblings the broadcast of h selects, and those with a full queue
broadcast_targets(h) == selected_harts(inflight[h], confidential_hart_id(h))
full_targets(h) ==
    {slot \in broadcast_targets(h) :
        Len(queue_of(confidential_vm_id(h), slot)) >= MaxInterHartRequests}
sends(h) == pc[h] = "broadcast_swapped" /\ pc'[h] # pc[h]
returns(h) == pc[h] = "broadcast_sent" /\ pc'[h] # pc[h]

\* C15: broadcast failures are recoverable.  The broadcast of the VM ends
\* with Ok or with one of the two errors, never with an abort; a selected
\* target with a full queue makes it an error, and nothing is added to a full
\* queue; broadcast_inter_hart_request hands that result to the handler, which
\* still owns the guard over the same hart.  No queue is ever longer than
\* its capacity.
BroadcastFailuresRecoverable ==
    /\ [](\A id \in DOMAIN confidential_vms, slot \in ConfidentialHartIds :
            Len(queue_of(id, slot)) <= MaxInterHartRequests)
    /\ [][\A h \in HardwareHarts :
            /\ sends(h) =>
                /\ pc'[h] = "broadcast_sent"
                /\ result'[h] \in {"Ok", "Err(ReachedMaxNumberOfRemoteHartRequests)",
                                   "Err(InterruptSendingError)"}
                /\ full_targets(h) # {} => is_error(result'[h])
                /\ result'[h] = "Err(ReachedMaxNumberOfRemoteHartRequests)"
                        => full_targets(h) # {}
                /\ \A slot \in full_targets(h) :
                        queue_of(confidential_vm_id(h), slot)'
                            = queue_of(confidential_vm_id(h), slot)
            /\ returns(h) =>
                /\ pc'[h] = "handler"
                /\ result'[h] = result[h]
                /\ confidential_hart(h)' = confidential_hart(h)
                /\ ~Aborted']_vars

\* a handler holds the error of a broadcast to a sibling whose queue is full
BroadcastFailuresRecoverableWitness ==
    \E h \in HardwareHarts :
        /\ pc[h] = "handler"
        /\ result[h] = "Err(ReachedMaxNumberOfRemoteHartRequests)"
        /\ \E slot \in ConfidentialHartIds \ {confidential_hart_id(h)} :
                Len(queue_of(confidential_vm_id(h), slot)) = MaxInterHartRequests

\* the steps of a conversion on hardware hart h
builds_harts(h) == pc[h] = "NonConfidential" /\ pc'[h] = "try_write"
inserts(h) == pc[h] = "write_locked" /\ pc'[h] # pc[h]
\* the hart of a new VM that is made from the supplied state, and one that is
\* in the VM-reset state
is_boot_hart(hart, slot, hart_state) ==
    /\ hart.confidential_hart_id = slot
    /\ hart.registers = hart_state
    /\ hart.lifecycle_state = "Started"
is_reset_hart(hart, slot) ==
    /\ hart.confidential_hart_id = slot
    /\ hart.registers = "reset"
    /\ hart.registers \notin HartStateInputs
    /\ hart.lifecycle_state = "Stopped"

\* C16: hart initialisation.  A conversion builds exactly two harts, with the
\* ids 0 and 1: hart 0 from the supplied state of the boot hart, every other
\* hart in the VM-reset state, with none of the supplied state; the VM that a
\* successful conversion inserts has these harts.
HartInitialisation ==
    /\ [][\A h \in HardwareHarts, hart_state \in HartStateInputs :
            (create_confidential_vm(h, hart_state, TRUE) /\ builds_harts(h)) =>
                LET harts == conversion'[h].confidential_harts
                IN  /\ DOMAIN harts = {0, 1}
                    /\ is_boot_hart(harts[0], 0, hart_state)
                    /\ \A slot \in DOMAIN harts \ {0} : is_reset_hart(harts[slot], slot)]_vars
    /\ [][\A h \in HardwareHarts :
            inserts(h) =>
                LET id == conversion[h].id
                    harts == confidential_vms'[id].confidential_harts
                IN  /\ DOMAIN harts = {0, 1}
                    /\ \A slot \in DOMAIN harts :
                        /\ harts[slot].confidential_vm_id = id
                        /\ harts[slot] = [conversion[h].confidential_harts[slot]
                                            EXCEPT !.confidential_vm_id = id]]_vars
    /\ [](\A id \in DOMAIN confidential_vms :
            LET harts == confidential_vms[id].confidential_harts
            IN  /\ DOMAIN harts = {0, 1}
                /\ \E hart_state \in HartStateInputs : is_boot_hart(harts[0], 0, hart_state)
                /\ \A slot \in DOMAIN harts \ {0} : is_reset_hart(harts[slot], slot))

\* the hypervisor was given the id of a VM whose hart 0 has the state that was
\* supplied and whose hart 1 is in the VM-reset state
HartInitialisationWitness ==
    \E h \in HardwareHarts :
        /\ conversion[h].exposed.variant = "SbiRequest"
        /\ vm_exists(conversion[h].exposed.confidential_vm_id)
        /\ LET harts == confidential_vms[conversion[h].exposed.confidential_vm_id]
                            .confidential_harts
           IN  is_boot_hart(harts[0], 0, "boot_b") /\ is_reset_hart(harts[1], 1)

\* C17: VM id uniqueness.  The id of a conversion is allocated and its VM
\* inserted with the write lock held by that hardware hart alone, also when
\* another hardware hart converts at the same time; the VM is inserted under
\* an id no VM of the registry has, it replaces no VM, and the hypervisor is
\* given that id; every VM of the registry is recorded under its own id.
VmIdUniqueness ==
    /\ [](/\ Cardinality(WriteLockHolders) <= 1
          /\ \A h \in WriteLockHolders : ~vm_exists(conversion[h].id)
          /\ \A id \in DOMAIN confidential_vms, slot \in ConfidentialHartIds :
                LET hart == confidential_vms[id].confidential_harts[slot]
                IN  ~is_dummy(hart) => hart.confidential_vm_id = id)
    /\ [][\A h \in HardwareHarts :
            inserts(h) =>
                LET id == conversion[h].id
                IN  /\ id \in ConfidentialVmIds
                    /\ id \notin DOMAIN confidential_vms
                    /\ DOMAIN confidential_vms' = DOMAIN confidential_vms \cup {id}
                    /\ \A other \in DOMAIN confidential_vms :
                            confidential_vms'[other] = confidential_vms[other]
                    /\ conversion'[h].exposed = kvm_ace_register(id, BOOT_HART_ID)]_vars

\* a hardware hart holds the write lock with an id that no VM of the registry
\* has, while another one is about to take the lock for its own conversion
VmIdUniquenessWitness ==
    \E h1, h2 \in HardwareHarts :
        /\ pc[h1] = "write_locked"
        /\ pc[h2] = "try_write"
        /\ DOMAIN confidential_vms # {}
        /\ conversion[h1].id \notin DOMAIN confidential_vms

\* the positions of a conversion, and its steps on hardware hart h
ConversionPcs == {"try_write", "write_locked"}
converts(h) ==
    \/ pc[h] = "NonConfidential" /\ pc'[h] = "try_write"
    \/ pc[h] = "NonConfidential" /\ conversion'[h].exposed.variant = "SbiResult"
            /\ conversion'[h] # conversion[h]
    \/ pc[h] \in ConversionPcs /\ pc'[h] # pc[h]
exposed(h) == conversion[h].exposed
is_recoverable_error(transformation) ==
    /\ transformation.variant = "SbiResult"
    /\ transformation.error \in {"MemoryProtector", "TooManyConfidentialVms"}

\* C18: a failed creation is recoverable and leaves the registry as it was.
\* When the memory protector cannot be built or there is no id, no VM is
\* added and the hypervisor runs again with the transformation of the error;
\* no step of a conversion aborts or gives the hardware hart a confidential
\* hart; a successful conversion adds exactly one VM and hands the
\* hypervisor its id with the boot hart id 0; the registry grows in no
\* other way.
CreationFailureRecoverable ==
    /\ [][\A h \in HardwareHarts :
            /\ (\E hart_state \in HartStateInputs :
                    create_confidential_vm(h, hart_state, FALSE)) =>
                        /\ confidential_vms' = confidential_vms
                        /\ pc'[h] = "NonConfidential"
                        /\ exposed(h)' = into_non_confidential_transformation("MemoryProtector")
            /\ (pc[h] = "try_write" /\ pc'[h] # pc[h] /\ unique_ids = {}) =>
                        /\ confidential_vms' = confidential_vms
                        /\ pc'[h] = "NonConfidential"
                        /\ exposed(h)' =
                                into_non_confidential_transformation("TooManyConfidentialVms")
            /\ converts(h) =>
                        /\ pc'[h] \in ConversionPcs \cup {"NonConfidential"}
                        /\ ~Aborted'
                        /\ hardware_hart' = hardware_hart
                        /\ is_dummy(confidential_hart(h))'
                        /\ is_recoverable_error(exposed(h)') => confidential_vms' = confidential_vms
            /\ inserts(h) =>
                        /\ Cardinality(DOMAIN confidential_vms')
                                = Cardinality(DOMAIN confidential_vms) + 1
                        /\ exposed(h)'.variant = "SbiRequest"
                        /\ exposed(h)'.function = "kvm_ace_register"
                        /\ exposed(h)'.confidential_vm_id \in
                                DOMAIN confidential_vms' \ DOMAIN confidential_vms
                        /\ exposed(h)'.boot_hart_id = 0]_vars
    /\ [][DOMAIN confidential_vms' \ DOMAIN confidential_vms # {} =>
                \E h \in HardwareHarts : inserts(h)]_vars

\* the registry is full and the hypervisor was told that there is no id left
CreationFailureRecoverableWitness ==
    \E h \in HardwareHarts :
        /\ pc[h] = "NonConfidential"
        /\ exposed(h) = into_non_confidential_transformation("TooManyConfidentialVms")
        /\ Cardinality(DOMAIN confidential_vms) = MaxNumberOfConfidentialVms

\* the operations of the guard of h on its VM can take their locks
per_vm_operations_enabled(h) ==
    /\ pc[h] = "handler" =>
            /\ ENABLED into_non_confidential_flow(h)
            /\ ENABLED process_inter_hart_requests(h)
            /\ ENABLED (\E request \in InterProcessorInterrupts :
                            broadcast_inter_hart_request(h, request))
    /\ pc[h] = "resume_process" => ENABLED process_inter_hart_requests(h)
changes_registry == DOMAIN confidential_vms' # DOMAIN confidential_vms

\* C19: registry lock discipline.  The write lock is held by one hardware
\* hart at a time, with no reader, and only from the allocation of the id to
\* the insertion of the VM: the harts of the new VM are built before it is
\* taken.  The operations of a guard on its VM only read-lock the registry:
\* they wait for a writer and for the lock of their own VM and for nothing
\* else, so guards over harts of different VMs work at the same time, and they
\* never change which VMs the registry has.
LockDiscipline ==
    /\ [](/\ WriteLockHolders # {} =>
                Cardinality(WriteLockHolders) = 1 /\ ReadLockHolders = {}
          /\ \A h \in HardwareHarts :
                /\ pc[h] \in {"try_write", "write_locked"} =>
                        DOMAIN conversion[h].confidential_harts = ConfidentialHartIds
                /\ (~Aborted /\ WriteLockHolders = {}
                        /\ VmLockHolders(confidential_vm_id(h)) = {})
                    => per_vm_operations_enabled(h))
    /\ [][\A h \in HardwareHarts :
            /\ (pc[h] # "write_locked" /\ pc'[h] = "write_locked") =>
                    /\ pc[h] = "try_write"
                    /\ ReadLockHolders = {} /\ WriteLockHolders = {}
                    /\ conversion'[h].id \in unique_ids
                    /\ confidential_vms' = confidential_vms
            /\ (pc[h] = "write_locked" /\ pc'[h] # pc[h]) =>
                    /\ pc'[h] = "NonConfidential"
                    /\ DOMAIN confidential_vms' = DOMAIN confidential_vms \cup {conversion[h].id}
            /\ (holds_guard(h) /\ (pc'[h] # pc[h] \/ hardware_hart'[h] # hardware_hart[h]))
                    => ~changes_registry]_vars
    /\ [][changes_registry => \E h \in HardwareHarts : pc[h] = "write_locked"]_vars

\* the guards over harts of two VMs are inside their broadcasts at the same
\* time, each with the lock of its VM
LockDisciplineWitness ==
    \E h1, h2 \in HardwareHarts :
        /\ pc[h1] \in BroadcastPcs
        /\ pc[h2] \in BroadcastPcs
        /\ confidential_vm_id(h1) # confidential_vm_id(h2)

\* the drain of hardware hart h: a step of process_inter_hart_requests, which
\* a hart in its resume shows by its position and a handler by a shorter queue
drains(h) ==
    /\ owner_drains(confidential_vm_id(h), confidential_hart_id(h), h)
    /\ pc[h] = "handler" => Len(inter_hart_requests(h)') < Len(inter_hart_requests(h))
\* the transformations of queued requests among those applied
applied_requests(h) ==
    SelectSeq(applied(h), LAMBDA t : t.origin = "InterHartRequest")

\* C20: no inter-hart request is lost or duplicated.  While a sibling is
\* inside its broadcast it alone has the VM: the target does not drain then,
\* and the broadcast gives each selected queue one more request or leaves it;
\* a drain applies each request of the queue once, in order, and leaves the
\* queue empty; no other step changes a queue or applies a queued request.
NoLostOrDuplicatedRequest ==
    /\ [](\A id \in DOMAIN confidential_vms : Cardinality(VmLockHolders(id)) <= 1)
    /\ [][\A h \in HardwareHarts :
            /\ drains(h) =>
                /\ VmLockHolders(confidential_vm_id(h)) = {}
                /\ Len(applied(h)') = Len(inter_hart_requests(h))
                /\ \A i \in DOMAIN applied(h)' :
                        applied(h)'[i] =
                            into_expose_to_confidential_vm(inter_hart_requests(h)[i])
                /\ inter_hart_requests(h)' = << >>
                /\ \A slot \in ConfidentialHartIds \ {confidential_hart_id(h)} :
                        queue_of(confidential_vm_id(h), slot)'
                            = queue_of(confidential_vm_id(h), slot)
            /\ sends(h) =>
                /\ VmLockHolders(confidential_vm_id(h)) = {h}
                /\ \A slot \in ConfidentialHartIds :
                        LET before == queue_of(confidential_vm_id(h), slot)
                            after == queue_of(confidential_vm_id(h), slot)'
                        IN  /\ after \in {before, Append(before, inflight[h])}
                            /\ (result'[h] = "Ok" /\ slot \in broadcast_targets(h))
                                    => after = Append(before, inflight[h])
                            /\ slot \notin broadcast_targets(h) => after = before
            /\ (~drains(h) /\ ~is_dummy(confidential_hart(h))
                    /\ assigned(h)' = assigned(h)) =>
                        \/ applied_requests(h)' = << >>
                        \/ applied(h)' = applied(h)]_vars
    /\ [][\A id \in DOMAIN confidential_vms, slot \in ConfidentialHartIds :
            (vm_exists(id)' /\ queue_of(id, slot)' # queue_of(id, slot)) =>
                \E h \in HardwareHarts :
                    \/ drains(h) /\ assigned(h) = <<id, slot>>
                    \/ sends(h) /\ confidential_vm_id(h) = id]_vars

\* a hart in its resume has had its queue applied, and a request that its
\* sibling broadcast after that drain waits in the queue
NoLostOrDuplicatedRequestWitness ==
    \E h1, h2 \in HardwareHarts :
        /\ pc[h1] = "broadcast_sent"
        /\ result[h1] = "Ok"
        /\ pc[h2] = "resume_take"
        /\ confidential_vm_id(h1) = confidential_vm_id(h2)
        /\ Len(applied_requests(h2)) = MaxInterHartRequests
        /\ inter_hart_requests(h2) = <<inflight[h1]>>


volatile_csrs(h) == confidential_hart(h).volatile_csrs
loaded_csrs(h) == confidential_hart(h).loaded_csrs
\* the hardware hart enters the monitor by a trap of its confidential hart
traps(h) == pc[h] = "Guest" /\ pc'[h] # "Guest"
\* a guard operation of the hardware hart ends in exit_to_confidential_hart
exits_to_confidential_hart(h) ==
    pc[h] # "exit_to_confidential_hart_asm" /\ pc'[h] = "exit_to_confidential_hart_asm"
\* the context switch gives the hardware hart to the confidential hart
transfers_control(h) == pc[h] # "Guest" /\ pc'[h] = "Guest"

\* C21: register persistence ordering.  A trap leaves the volatile registers
\* in memory whether or not a guard and a handler follow, and they stay there
\* for as long as a handler or a resume works under the guard.  Every
\* exit_to_confidential_hart applies its transformation and then reloads the
\* registers, so that they hold the transformation, all before the context
\* switch; the confidential hart gets control only from there, and a hardware
\* hart inside exit_to_confidential_hart does nothing else: it never returns.
RegisterPersistenceOrdering ==
    /\ [](\A h \in HardwareHarts :
            /\ pc[h] \in GuardPcs \ {"exit_to_confidential_hart_asm"} =>
                    volatile_csrs(h) = "in_main_memory"
            /\ pc[h] = "exit_to_confidential_hart_asm" =>
                    /\ volatile_csrs(h) = "in_cpu"
                    /\ applied(h) # << >>
                    /\ loaded_csrs(h) = applied(h))
    /\ [][\A h \in HardwareHarts :
            /\ traps(h) =>
                /\ volatile_csrs(h)' = "in_main_memory"
                /\ pc'[h] \in {"handler", "panic"}
            /\ exits_to_confidential_hart(h) =>
                /\ pc[h] \in {"handler", "resume_take"}
                /\ volatile_csrs(h) = "in_main_memory"
                /\ Len(applied(h)') = 1
                /\ loaded_csrs(h)' = applied(h)'
            /\ transfers_control(h) =>
                /\ pc[h] = "exit_to_confidential_hart_asm"
                /\ volatile_csrs(h)' = "in_cpu"
            /\ (pc[h] = "exit_to_confidential_hart_asm" /\ ~transfers_control(h)) =>
                /\ pc'[h] = pc[h]
                /\ hardware_hart'[h] = hardware_hart[h]]_vars

\* a handler that a trap selected has ended in exit_to_confidential_hart: the
\* registers it reloaded hold its transformation, and the context switch is
\* still to come
RegisterPersistenceOrderingWitness ==
    \E h \in HardwareHarts :
        /\ pc[h] = "exit_to_confidential_hart_asm"
        /\ confidential_hart(h).trap_reason # NoTrapReason
        /\ volatile_csrs(h) = "in_cpu"
        /\ loaded_csrs(h) \in {<<t>> : t \in HandlerTransformations}

====
